---- MODULE Spec2Model ----
(***************************************************************************)
(* A model of the rustty storage engine: the LSM write and read path       *)
(* (LsmStorage, MemTable, WriteAheadLog, SSTable), the transaction layer   *)
(* on top of it (TransactionManager, Transaction, MvccLsmStorage), the     *)
(* compaction manager, the version store with its garbage collector, and   *)
(* the two background loops.                                               *)
(*                                                                         *)
(* Byte strings.  A key is a sequence of bytes.  A value is kept in        *)
(* run-length form, [byte |-> b, len |-> n] standing for the byte b        *)
(* repeated n times, so that a value of one MiB can be written without     *)
(* enumerating it; the zero-length value is the tombstone.                 *)
(*                                                                         *)
(* Tasks.  Procs are the tasks that call into one shared store; the two    *)
(* background loops run their calls as tasks of their own.  A call is one  *)
(* step for every time it takes a lock or touches a file: other tasks run  *)
(* between the steps.                                                      *)
(***************************************************************************)
EXTENDS Integers, Sequences, FiniteSets, TLC

\* ------------------------------------------------------------- bounds
MaxTx == 2          \* transaction ids handed out in one run
MaxBegins == 3      \* transaction ids handed out in a run of begins and commits alone
MaxClock == 1       \* the clock reads 1 .. 1 + MaxClock microseconds
MaxWalClock == 0    \* the clock reads 1 .. 1 + MaxWalClock when a WAL record is stamped
MaxWal == 3         \* WAL records and parts of records written in one run
MaxBuffered == 2    \* write-buffer entries of all transactions in one run
MaxReopen == 1      \* abrupt stops followed by a reopen in one run
MaxChain == 2       \* length of the chain the visibility test is checked on
MaxVersions == 3    \* versions pushed onto the version chains in one run
MaxLevelRuns == 3   \* one-key runs created before a leveled compaction
MaxRuns == 2        \* runs created by callers in one run

Procs == {1, 2}
Keys == {<<1>>, <<1, 2>>}
Prefixes == {<<>>, <<1>>, <<1, 2>>, <<2>>}

\* The background tasks, BackgroundCompactor and BackgroundGc, and the task
\* each runs its calls on.
Loops == {"compactor", "gc"}
LoopTask == [compactor |-> 3, gc |-> 4]
Tasks == Procs \cup {LoopTask[l] : l \in Loops}

\* ------------------------------------------------------------- values
FLUSH_THRESHOLD == 1024 * 1024

Bytes(b, n) == [byte |-> b, len |-> n]
Empty == Bytes(0, 0)
Large == {Bytes(3, FLUSH_THRESHOLD)}
PutValues == {Bytes(1, 1)} \cup Large   \* the values plain puts write
TxValue(t) == Bytes(t, 1)              \* the value transaction t buffers

None == <<"None">>
Some(x) == <<"Some", x>>
Ok(x) == <<"Ok", x>>
Err(e) == <<"Err", <<e>>>>
NoReturn == <<"NoReturn">>

EmptyMap == [x \in {} |-> None]

\* ------------------------------------------------------------- keys
StartsWith(k, p) == Len(p) <= Len(k) /\ SubSeq(k, 1, Len(p)) = p

\* Vec<u8> ordering: lexicographic, a proper prefix sorts first.
KeyLess(a, b) ==
    \E i \in 1..(Len(a) + 1) :
        /\ i <= Len(b)
        /\ \A j \in 1..(i - 1) : a[j] = b[j]
        /\ (i = Len(a) + 1 \/ a[i] < b[i])

RECURSIVE SortedKeys(_)
SortedKeys(S) ==
    IF S = {} THEN <<>>
    ELSE LET m == CHOOSE k \in S : \A j \in S : ~KeyLess(j, k)
         IN <<m>> \o SortedKeys(S \ {m})

RECURSIVE TakeWhilePrefix(_, _)
TakeWhilePrefix(ks, p) ==
    IF ks = <<>> \/ ~StartsWith(Head(ks), p) THEN <<>>
    ELSE <<Head(ks)>> \o TakeWhilePrefix(Tail(ks), p)

\* ------------------------------------------------------------- MemTable
MemTableNew == [data |-> EmptyMap, size |-> 0]

MemTableInsert(mt, k, v) ==
    [data |-> (k :> v) @@ mt.data, size |-> mt.size + Len(k) + v.len]

MemTableGet(mt, k) == IF k \in DOMAIN mt.data THEN Some(mt.data[k]) ELSE None

MemTableScan(mt, prefix) ==
    LET all == SortedKeys(DOMAIN mt.data)
        from == SelectSeq(all, LAMBDA k : ~KeyLess(k, prefix))
        ks == TakeWhilePrefix(from, prefix)
    IN [i \in 1..Len(ks) |-> <<ks[i], mt.data[ks[i]]>>]

ShouldFlush(mt) == mt.size > FLUSH_THRESHOLD

\* ------------------------------------------------------------- SSTable
SSTableGet(sst, k) == None

RECURSIVE SSTablesGetRev(_, _, _)
SSTablesGetRev(ssts, i, k) ==
    IF i = 0 THEN None
    ELSE IF SSTableGet(ssts[i], k) # None THEN SSTableGet(ssts[i], k)
    ELSE SSTablesGetRev(ssts, i - 1, k)

\* ------------------------------------------------------------- scan helpers
RECURSIVE InsertByKey(_, _)
InsertByKey(sorted, e) ==
    IF sorted = <<>> THEN <<e>>
    ELSE IF KeyLess(e[1], Head(sorted)[1]) THEN <<e>> \o sorted
    ELSE <<Head(sorted)>> \o InsertByKey(Tail(sorted), e)

RECURSIVE SortByKey(_)
SortByKey(s) ==
    IF s = <<>> THEN <<>>
    ELSE InsertByKey(SortByKey(SubSeq(s, 1, Len(s) - 1)), s[Len(s)])

RECURSIVE DedupByKey(_)
DedupByKey(s) ==
    IF Len(s) <= 1 THEN s
    ELSE IF s[1][1] = s[2][1] THEN DedupByKey(<<s[1]>> \o SubSeq(s, 3, Len(s)))
    ELSE <<s[1]>> \o DedupByKey(Tail(s))

\* ------------------------------------------------------------- state
VARIABLES
    wal,                    \* the bytes of wal.bin, as parts of records, in order
    wal_buf,                \* the bytes the WAL's BufWriter holds unwritten
    memtable,               \* the MemTable: [data, size]
    mem_lock,               \* the memtable RwLock: "free", "deadlocked", "poisoned"
    sstables,               \* LsmStorage.sstables, oldest first
    sstable_levels,         \* LsmStorage.sstable_levels: level -> runs
    version_store,          \* MvccStorage.version_store: key -> chain
    active_transactions,    \* TransactionManager.active_transactions
    committed_transactions, \* TransactionManager.committed_transactions
    next_tx_id,             \* the COUNTER of TransactionId::new
    txs,                    \* the Transaction objects by id
    pc,                     \* where each task stands
    op,                     \* the call each task is running, and its result
    acked,                  \* history: the last acknowledged plain write of a key
    mem_src,                \* history: the transaction that wrote the key's entry, or 0
    latest,                 \* history: the newest write applied to a key
    commit_order,           \* history: the transactions in the committed map, in order of entry
    files,                  \* the directory: the path of every run file -> its file
    inodes,                 \* the bytes of every run file made, by file number
    created,                \* the runs SSTable::create returned that their callers hold
    garbage_collector,      \* MvccLsmStorage.garbage_collector: "none", or its collector's flag
    strategy,               \* CompactionConfig.strategy of the manager, "none" before it is built
    is_compacting,          \* CompactionManager.is_compacting
    next_run_id,            \* history: the run files written so far, plus one
    merges,                 \* history: inputs, output and target of every merge
    is_collecting,          \* GarbageCollector.is_collecting
    reopens,                \* history: how often the store was opened again
    issued,                 \* history: the transaction ids handed out, in order
    stopped,                \* BackgroundCompactor.stopped and BackgroundGc.stopped
    loop_pc                 \* where the start loop of each background task stands

lsmVars == <<wal, wal_buf, memtable, mem_lock, sstables, sstable_levels>>
tmVars == <<active_transactions, committed_transactions, next_tx_id>>
histVars == <<acked, mem_src, latest, commit_order>>
loopVars == <<stopped, loop_pc>>
runVars == <<files, inodes, created, next_run_id, merges>>
bgVars == <<files, inodes, created, strategy, is_compacting, next_run_id,
            merges, is_collecting, garbage_collector, reopens, stopped, loop_pc>>
vars == <<wal, wal_buf, memtable, mem_lock, sstables, sstable_levels,
          version_store, active_transactions, committed_transactions,
          next_tx_id, txs, pc, op, acked, mem_src, latest, commit_order,
          files, inodes, created, strategy, is_compacting, next_run_id,
          merges, is_collecting, garbage_collector, reopens, issued, stopped,
          loop_pc>>

\* The ids of the transactions a run can hold.
TxIds == 1..MaxBegins

NoTx ==
    [state |-> "Unborn", snapshot_ts |-> 0, writes |-> EmptyMap, owner |-> "none",
     outcome |-> "none", seen |-> 0, conflict |-> FALSE]

\* A task that runs no call.  pending is what a running call has still to
\* do (writes to put, merges to run, versions to remove); read, out and rest
\* are what the merge in hand read from its inputs, its output run and the
\* inputs whose files it has still to delete; oldest and threshold are the
\* two timestamps a collection has read.
IdleOp ==
    [kind |-> "none", tx |-> 0, pending |-> <<>>, applied |-> FALSE,
     result |-> "none", count |-> 0, read |-> <<>>, out |-> None,
     rest |-> <<>>, oldest |-> 0, threshold |-> 0]

Init ==
    /\ wal = <<>>
    /\ wal_buf = <<>>
    /\ memtable = MemTableNew
    /\ mem_lock = "free"
    /\ sstables = <<>>
    /\ sstable_levels = EmptyMap
    /\ version_store = EmptyMap
    /\ active_transactions = {}
    /\ committed_transactions = EmptyMap
    /\ next_tx_id = 1
    /\ txs = [t \in TxIds |-> NoTx]
    /\ pc = [p \in Tasks |-> "idle"]
    /\ op = [p \in Tasks |-> IdleOp]
    /\ acked = [k \in Keys |-> None]
    /\ mem_src = [k \in Keys |-> 0]
    /\ latest = [k \in Keys |-> None]
    /\ commit_order = <<>>
    /\ files = EmptyMap
    /\ inodes = <<>>
    /\ created = {}
    /\ strategy = "none"
    /\ is_compacting = FALSE
    /\ next_run_id = 1
    /\ merges = <<>>
    /\ is_collecting = FALSE
    /\ garbage_collector = "none"
    /\ reopens = 0
    /\ issued = <<>>
    /\ stopped = [l \in Loops |-> FALSE]
    /\ loop_pc = [l \in Loops |-> "new"]

\* ------------------------------------------------------------- reads
\* LsmStorage::get once it holds the memtable read lock.
LsmGet(k) ==
    LET m == MemTableGet(memtable, k)
    IN IF m # None THEN m ELSE SSTablesGetRev(sstables, Len(sstables), k)

\* What a call of LsmStorage::get returns to its caller: nothing when the
\* memtable lock can no longer be taken.
Get(k) == IF mem_lock # "free" THEN NoReturn ELSE Ok(LsmGet(k))

\* LsmStorage::scan once it holds the memtable read lock; the loop over the
\* sstables adds nothing to the results.
LsmScan(prefix) == DedupByKey(SortByKey(MemTableScan(memtable, prefix)))

Scan(prefix) == IF mem_lock # "free" THEN NoReturn ELSE Ok(LsmScan(prefix))

\* The record types a reader asks for, by the number of bytes of their
\* bincode encoding: the unit type, u8 and u64.
TypeSize == [unit |-> 0, u8 |-> 1, u64 |-> 8]
Types == DOMAIN TypeSize

\* The first n bytes of a value.
Take(data, n) == IF n = 0 THEN Empty ELSE Bytes(data.byte, n)

\* bincode::deserialize::<T>: the bytes of the encoding of T are read from
\* the front of the data and bytes behind them are left alone; data shorter
\* than the encoding is an error.  The value read is given by its bytes.
Deserialize(T, data) ==
    IF data.len < TypeSize[T] THEN Err("Serialization")
    ELSE Ok(Some(Take(data, TypeSize[T])))

\* The record type of the one-byte values the transactions write.
ValueType == "u8"

\* <LsmStorage as Database>::get::<T>
DatabaseGet(T, k) ==
    IF mem_lock # "free" THEN NoReturn
    ELSE IF LsmGet(k) = None THEN Ok(None)
    ELSE Deserialize(T, LsmGet(k)[2])

\* get_for_transaction / scan_for_transaction of MvccLsmStorage and of
\* LsmStorage: the transaction is not looked at.
GetForTransaction(T, k, t) == DatabaseGet(T, k)

ScanForTransaction(prefix, t) == Scan(prefix)

\* ------------------------------------------------------------- registry
\* VersionTimestamp::now reads the wall clock (SystemTime), which may stand
\* still, move on or be set back between two readings.
NowValues == 1..(1 + MaxClock)

\* The readings of the clock that write_entry stamps the records with.
WalNowValues == 1..(1 + MaxWalClock)

MaxOf(S) == CHOOSE x \in S : \A y \in S : y <= x

MinOf(S) == CHOOSE x \in S : \A y \in S : x <= y

GetLatestCommitTimestamp ==
    IF DOMAIN committed_transactions = {} THEN 0
    ELSE MaxOf({committed_transactions[t] : t \in DOMAIN committed_transactions})

\* The keys written by transactions that committed after t began.
ChangedSince(t) ==
    UNION {DOMAIN txs[commit_order[i]].writes :
              i \in (txs[t].seen + 1)..Len(commit_order)}

\* The value of k in the snapshot of t: the write of the last transaction
\* that had committed when t began and wrote k.
RECURSIVE ViewAt(_, _)
ViewAt(n, k) ==
    IF n = 0 THEN None
    ELSE IF k \in DOMAIN txs[commit_order[n]].writes
         THEN txs[commit_order[n]].writes[k]
    ELSE ViewAt(n - 1, k)

SnapshotValue(t, k) == ViewAt(txs[t].seen, k)

\* The bytes a buffered write puts into the store: a delete puts the tombstone.
WriteBytes(w) == IF w = None THEN Empty ELSE w[2]

Perms(S) ==
    {s \in [1..Cardinality(S) -> S] :
        \A i, j \in 1..Cardinality(S) : i # j => s[i] # s[j]}

\* Tasks are interchangeable: a new call runs on the lowest idle task.
Free(p) == pc[p] = "idle" /\ \A q \in Procs : q < p => pc[q] # "idle"

\* Writes the run may still start.
InFlight(p) == IF pc[p] \in {"wal", "mem"} THEN Len(op[p].pending) ELSE 0

RECURSIVE SumInFlight(_)
SumInFlight(S) ==
    IF S = {} THEN 0
    ELSE LET p == CHOOSE q \in S : TRUE IN InFlight(p) + SumInFlight(S \ {p})

Budget == MaxWal - Len(wal) - Len(wal_buf) - SumInFlight(Procs)

\* ------------------------------------------------------------- bytes
\* A string of bytes in run-length form: a sequence of [byte, len] with
\* len > 0 in which no two neighbours have one byte.
RECURSIVE ByteLen(_)
ByteLen(s) == IF s = <<>> THEN 0 ELSE Head(s).len + ByteLen(Tail(s))

Cat(s, t) ==
    IF s = <<>> \/ t = <<>> THEN s \o t
    ELSE IF s[Len(s)].byte = Head(t).byte
         THEN SubSeq(s, 1, Len(s) - 1)
              \o <<Bytes(Head(t).byte, s[Len(s)].len + Head(t).len)>> \o Tail(t)
         ELSE s \o t

\* The bytes a..b-1 of a string.
RECURSIVE Sub(_, _, _)
Sub(s, a, b) ==
    IF s = <<>> \/ b <= 0 THEN <<>>
    ELSE LET n == Head(s).len
             lo == IF a > 0 THEN a ELSE 0
             hi == IF b < n THEN b ELSE n
         IN (IF lo < hi THEN <<Bytes(Head(s).byte, hi - lo)>> ELSE <<>>)
            \o Sub(Tail(s), a - n, b - n)

\* The byte at offset i of a string, counted from its run j on.
RECURSIVE ByteFrom(_, _, _)
ByteFrom(s, j, i) ==
    IF i < s[j].len THEN s[j].byte ELSE ByteFrom(s, j + 1, i - s[j].len)

ByteAt(s, i) == ByteFrom(s, 1, i)

\* bincode's fixed-width integers: w bytes, the lowest first.
RECURSIVE LittleEndian(_, _)
LittleEndian(n, w) ==
    IF w = 0 THEN <<>>
    ELSE Cat(<<Bytes(n % 256, 1)>>, LittleEndian(n \div 256, w - 1))

U64(n) ==
    IF n = 0 THEN <<Bytes(0, 8)>>
    ELSE IF n < 256 THEN <<Bytes(n, 1), Bytes(0, 7)>>
    ELSE LittleEndian(n, 8)

\* The bytes of a key, which the model writes out one by one.
RECURSIVE KeyBytes(_)
KeyBytes(k) ==
    IF k = <<>> THEN <<>> ELSE Cat(<<Bytes(Head(k), 1)>>, KeyBytes(Tail(k)))

\* The bytes of a value: len times one byte, or the bytes themselves.
ValueBytes(v) ==
    IF v.len = 0 THEN <<>>
    ELSE IF "runs" \in DOMAIN v THEN v.runs
    ELSE <<Bytes(v.byte, v.len)>>

\* bincode's Vec<u8>: the length as a u64, then the bytes.
VecBytes(s) == Cat(U64(ByteLen(s)), s)

\* A length no file of the model holds that many bytes for.
TooLong == -1

\* The u64 at offset at of a string, as the reader of a length takes it:
\* None when fewer than eight bytes are left.
ReadU64(s, at) ==
    LET w == Sub(s, at, at + 8)
    IN IF ByteLen(w) < 8 THEN None
       ELSE IF \E i \in 4..7 : ByteAt(w, i) # 0 THEN Some(TooLong)
       ELSE IF ByteAt(w, 3) >= 128 THEN Some(TooLong)
       ELSE Some(ByteAt(w, 0) + 256 * ByteAt(w, 1)
                 + 65536 * ByteAt(w, 2) + 16777216 * ByteAt(w, 3))

\* A Vec<u8> read at offset at: its bytes and the offset behind it, or None
\* when the string ends before the vector does.
ReadVec(s, at) ==
    LET n == ReadU64(s, at)
    IN IF n = None \/ n = Some(TooLong) THEN None
       ELSE IF at + 8 + n[2] > ByteLen(s) THEN None
       ELSE Some([bytes |-> Sub(s, at + 8, at + 8 + n[2]), next |-> at + 8 + n[2]])

\* A key as the model writes it: the sequence of its bytes.
RECURSIVE AsKey(_)
AsKey(s) ==
    IF s = <<>> THEN <<>>
    ELSE [i \in 1..Head(s).len |-> Head(s).byte] \o AsKey(Tail(s))

\* A value as the model writes it: len times one byte where the bytes are
\* all one, the bytes themselves where they are not.
AsValue(s) ==
    IF s = <<>> THEN Empty
    ELSE IF Len(s) = 1 THEN Bytes(s[1].byte, s[1].len)
    ELSE [runs |-> s, len |-> ByteLen(s)]

\* ------------------------------------------------------------- write-ahead log
\* The buffer size of the BufWriter that WriteAheadLog::new wraps the file in.
BufWriterCapacity == 8192

\* The bincode encoding of a WalEntry: two length-prefixed byte strings and
\* the timestamp.
RecordSize(k, v) == 8 + Len(k) + 8 + v.len + 8

WalEntryBytes(k, v, ts) ==
    Cat(Cat(VecBytes(KeyBytes(k)), VecBytes(ValueBytes(v))), U64(ts))

\* The bytes from..to-1 of the encoding of the record (k, v, ts).  The file
\* and the buffer are sequences of such pieces.
Piece(k, v, ts, a, b) ==
    [key |-> k, value |-> v, timestamp |-> ts, from |-> a, to |-> b]

PieceBytes(x) == x.to - x.from

RECURSIVE SumBytes(_)
SumBytes(s) == IF s = <<>> THEN 0 ELSE PieceBytes(Head(s)) + SumBytes(Tail(s))

\* The bytes a..b-1 of a sequence of pieces.
RECURSIVE SliceBytes(_, _, _)
SliceBytes(s, a, b) ==
    IF s = <<>> \/ b <= 0 THEN <<>>
    ELSE LET h == Head(s)
             n == PieceBytes(h)
             lo == IF a > 0 THEN a ELSE 0
             hi == IF b < n THEN b ELSE n
         IN (IF lo < hi
             THEN <<[h EXCEPT !.from = h.from + lo, !.to = h.from + hi]>>
             ELSE <<>>)
            \o SliceBytes(Tail(s), a - n, b - n)

\* Bytes written behind bytes: a piece that goes on where the piece before
\* it stopped makes one piece with it.
Join(s, t) ==
    IF s = <<>> \/ t = <<>> THEN s \o t
    ELSE LET l == s[Len(s)]
             h == Head(t)
         IN IF /\ h.from > 0 /\ l.to = h.from
               /\ l.key = h.key /\ l.value = h.value /\ l.timestamp = h.timestamp
            THEN SubSeq(s, 1, Len(s) - 1) \o <<[l EXCEPT !.to = h.to]>> \o Tail(t)
            ELSE s \o t

\* The bytes a sequence of pieces stands for.
RECURSIVE FileBytes(_)
FileBytes(s) ==
    IF s = <<>> THEN <<>>
    ELSE Cat(Sub(WalEntryBytes(Head(s).key, Head(s).value, Head(s).timestamp),
                 Head(s).from, Head(s).to),
             FileBytes(Tail(s)))

\* What write_entry sends through the BufWriter: what an earlier call left
\* in the buffer, then the record.
Stream(buf, k, v, ts) == buf \o <<Piece(k, v, ts, 0, RecordSize(k, v))>>

\* bincode hands the record to the BufWriter as three writes of eight bytes
\* (the two lengths and the timestamp) and one write for every byte of the
\* key and of the value.  The offset in the record at which the write that
\* holds byte c starts.
UnitStart(k, v, c) ==
    LET u2 == 8 + Len(k)
        u3 == 16 + Len(k) + v.len
    IN IF 0 < c /\ c < 8 THEN 0
       ELSE IF u2 < c /\ c < u2 + 8 THEN u2
       ELSE IF u3 < c /\ c < u3 + 8 THEN u3
       ELSE c

\* The offsets in the record at which the BufWriter writes its buffer out
\* while the record is fed into it, the buffer holding held bytes when the
\* record begins: a write that does not fit into what is left of the buffer
\* sends the buffer to the file first.  The first time is where the buffer
\* is full, or at the start of the write that would overfill it; from there
\* on the buffer fills up every BufWriterCapacity bytes, but for a last
\* write of eight bytes that does not fit.
FlushOffsets(k, v, held) ==
    IF BufWriterCapacity - held >= RecordSize(k, v) THEN <<>>
    ELSE LET first == UnitStart(k, v, BufWriterCapacity - held)
             n == (RecordSize(k, v) - 1 - first) \div BufWriterCapacity + 1
         IN [i \in 1..n |-> UnitStart(k, v, first + (i - 1) * BufWriterCapacity)]

\* The writes to the file of one call of write_entry, each as the offset in
\* the stream it writes up to: those of serialize_into, then the flush that
\* ends the call.
Writes(buf, k, v) ==
    LET inner == FlushOffsets(k, v, SumBytes(buf))
    IN [i \in 1..Len(inner) |-> SumBytes(buf) + inner[i]]
       \o <<SumBytes(buf) + RecordSize(k, v)>>

\* How often the buffer is written out while serialize_into feeds the
\* record into it.
Fills(buf, k, v) == Len(Writes(buf, k, v)) - 1

\* write_entry on a file that takes room more bytes and fails after them.
\* The writes that fit put their bytes into the file; the write that does
\* not fit puts in what the file still takes, the BufWriter keeps the rest of
\* what it tried to write, and the rest of the record is never produced.  An
\* error of serialize_into comes back as DbError::Serialization, an error of
\* the flush as DbError::Storage.
WriteEntry(file, buf, k, v, ts, room) ==
    LET s == Stream(buf, k, v, ts)
        w == Writes(buf, k, v)
        fit == Cardinality({i \in 1..Len(w) : w[i] <= room})
    IN IF fit = Len(w)
       THEN [file |-> Join(file, s), buf |-> <<>>, result |-> "Ok"]
       ELSE [file |-> Join(file, SliceBytes(s, 0, room)),
             buf |-> SliceBytes(s, room, w[fit + 1]),
             result |-> IF fit + 1 = Len(w) THEN "Storage" ELSE "Serialization"]

\* The writes to the file at which a call of write_entry is made to fail:
\* the first ones, and the flush that ends the call.
MaxFailedWrite == 4

FailPoints(n) == {j \in 1..n : j <= MaxFailedWrite \/ j = n}

\* The bytes a write cut short puts into the file.
ShortWrite == 10

\* The size a file is kept from growing beyond.
FileLimit == 10000

\* The room the file is given to make a call of write_entry fail: a write
\* fails as a whole or after ShortWrite bytes, or the file reaches
\* FileLimit.
FaultRooms(file, buf, k, v) ==
    LET w == Writes(buf, k, v)
        before(j) == IF j = 1 THEN 0 ELSE w[j - 1]
        limit == FileLimit - SumBytes(file)
    IN UNION {{r \in {before(j), before(j) + ShortWrite} : r < w[j]} :
                 j \in FailPoints(Len(w))}
       \cup {r \in {limit} : 0 <= r /\ r < w[Len(w)]}

\* A WalEntry read at offset at of a string of bytes, or None when the
\* string ends before the record does.
ReadWalEntry(s, at) ==
    LET key == ReadVec(s, at)
    IN IF key = None THEN None
       ELSE LET value == ReadVec(s, key[2].next)
            IN IF value = None THEN None
               ELSE IF ReadU64(s, value[2].next) = None THEN None
               ELSE Some([key |-> AsKey(key[2].bytes),
                          value |-> AsValue(value[2].bytes),
                          next |-> value[2].next + 8])

RECURSIVE ReadWalEntries(_, _)
ReadWalEntries(s, at) ==
    LET entry == ReadWalEntry(s, at)
    IN IF entry = None THEN <<>>
       ELSE << <<entry[2].key, entry[2].value>> >>
            \o ReadWalEntries(s, entry[2].next)

\* The records a bincode reader of wal.bin gets: it reads record after
\* record from the bytes, whatever call wrote them, and stops where a record
\* does not fit into the bytes that are left.
WalRecords(file) == ReadWalEntries(FileBytes(file), 0)

\* ------------------------------------------------------------- put / delete
StartWrite(p, kind, k, v) ==
    /\ Free(p)
    /\ Budget >= 1
    /\ pc' = [pc EXCEPT ![p] = "wal"]
    /\ op' = [op EXCEPT ![p] =
                [IdleOp EXCEPT !.kind = kind, !.pending = << <<k, v>> >>]]
    /\ UNCHANGED <<lsmVars, version_store, tmVars, txs, histVars, bgVars,
                   issued>>

\* LsmStorage::put is entered
StartPut(p, k, v) == StartWrite(p, "put", k, v)

\* Database::delete for LsmStorage: put(key, &[])
StartDelete(p, k) == StartWrite(p, "delete", k, Empty)

\* The transaction a failing commit call drops, still marked Active.
Dropped(tx, state, outcome) ==
    [NoTx EXCEPT !.state = state, !.owner = "dropped", !.outcome = outcome,
                 !.writes = tx.writes]

DropFailed(t) == [txs EXCEPT ![t] = Dropped(txs[t], txs[t].state, "commit_err")]

\* The calls that put the write buffer of a transaction into the store.
CommitKinds == {"commit", "lsm_commit"}

\* WriteAheadLog::write_entry under the WAL lock, the first half of
\* LsmStorage::put: the record, stamped with the clock's reading now, is
\* serialized into the BufWriter and the BufWriter is flushed, on a file that
\* takes room more bytes.  An error of serialize_into or flush ends the
\* running put (and the commit that called it) with that error, and leaves
\* in the buffer what the failing write did not put into the file.
WalStep(p, now, room) ==
    /\ pc[p] = "wal"
    /\ LET k == Head(op[p].pending)[1]
           v == Head(op[p].pending)[2]
           done == WriteEntry(wal, wal_buf, k, v, now, room)
       IN /\ wal' = done.file
          /\ wal_buf' = done.buf
          /\ IF done.result = "Ok"
             THEN /\ pc' = [pc EXCEPT ![p] = "mem"]
                  /\ UNCHANGED <<op, txs>>
             ELSE /\ pc' = [pc EXCEPT ![p] = "idle"]
                  /\ op' = [op EXCEPT ![p] =
                              IF op[p].kind \in CommitKinds THEN IdleOp
                              ELSE [op[p] EXCEPT !.pending = <<>>, !.result = "Err"]]
                  /\ txs' = IF op[p].kind \in CommitKinds THEN DropFailed(op[p].tx)
                            ELSE txs
    /\ UNCHANGED <<memtable, mem_lock, sstables, sstable_levels, version_store,
                   tmVars, histVars, bgVars, issued>>

\* The room the file is given for the record task p is about to write: all
\* the call needs, or one of FaultRooms.
WalRooms(p) ==
    LET k == Head(op[p].pending)[1]
        v == Head(op[p].pending)[2]
    IN {SumBytes(wal_buf) + RecordSize(k, v)} \cup FaultRooms(wal, wal_buf, k, v)

\* LsmStorage::flush_memtable as put calls it: put still holds the memtable
\* write guard, and flush_memtable asks for the same lock again.  A std
\* RwLock taken twice by one thread blocks for ever or panics; the panic
\* unwinds through put's guard and poisons the lock.
FlushMemtableOutcomes == {"deadlocked", "poisoned"}

\* The second half of LsmStorage::put: the memtable insert, the flush check,
\* and the return.  The commit of LsmStorage returns with the last put of
\* its loop; the commit of MvccLsmStorage goes on to the registry.
MemStep(p) ==
    /\ pc[p] = "mem"
    /\ LET k == Head(op[p].pending)[1]
           v == Head(op[p].pending)[2]
           rest == Tail(op[p].pending)
           mt == MemTableInsert(memtable, k, v)
           plain == op[p].kind \notin CommitKinds
           returns == plain \/ (op[p].kind = "lsm_commit" /\ rest = <<>>)
       IN IF mem_lock # "free"
          THEN /\ pc' = [pc EXCEPT ![p] = "dead"]
               /\ op' = [op EXCEPT ![p].result =
                            IF mem_lock = "poisoned" THEN "Panic" ELSE "Hung"]
               /\ UNCHANGED <<memtable, mem_lock, histVars, txs>>
          ELSE /\ memtable' = mt
               /\ mem_src' = [mem_src EXCEPT ![k] = op[p].tx]
               /\ latest' = [latest EXCEPT ![k] = Some(v)]
               /\ IF ShouldFlush(mt)
                  THEN /\ \E o \in FlushMemtableOutcomes :
                            /\ mem_lock' = o
                            /\ op' = [op EXCEPT ![p].applied = TRUE,
                                                ![p].result =
                                      IF o = "poisoned" THEN "Panic" ELSE "Hung"]
                       /\ pc' = [pc EXCEPT ![p] = "dead"]
                       /\ acked' = [acked EXCEPT ![k] = None]
                       /\ UNCHANGED <<commit_order, txs>>
                  ELSE /\ mem_lock' = mem_lock
                       /\ op' = [op EXCEPT ![p] =
                                    IF op[p].kind = "lsm_commit" /\ rest = <<>>
                                    THEN IdleOp
                                    ELSE [op[p] EXCEPT !.applied = TRUE,
                                                       !.pending = rest,
                                                       !.result =
                                             IF plain THEN "Ok" ELSE "none"]]
                       /\ pc' = [pc EXCEPT ![p] =
                                   IF returns THEN "idle"
                                   ELSE IF rest = <<>> THEN "tm" ELSE "wal"]
                       /\ txs' = IF op[p].kind = "lsm_commit" /\ rest = <<>>
                                 THEN [txs EXCEPT ![op[p].tx] =
                                         Dropped(@, "Committed", "commit_ok")]
                                 ELSE txs
                       /\ acked' = [acked EXCEPT ![k] =
                                      IF op[p].kind = "put" THEN <<"Put", v>>
                                      ELSE IF op[p].kind = "delete" THEN <<"Del">>
                                      ELSE None]
                       /\ UNCHANGED commit_order
    /\ UNCHANGED <<wal, wal_buf, sstables, sstable_levels, version_store,
                   tmVars, bgVars, issued>>

\* ------------------------------------------------------------- transactions
\* The Transaction a begin builds: Active, nothing buffered.
NewTransaction(snapshot_ts) ==
    [state |-> "Active", snapshot_ts |-> snapshot_ts, writes |-> EmptyMap,
     owner |-> "client", outcome |-> "none", seen |-> Len(commit_order),
     conflict |-> FALSE]

\* A begin that hands out the counter's value without advancing the counter.
BeginTransactionReusesId ==
    /\ next_tx_id \in TxIds
    /\ Len(issued) < MaxBegins
    /\ UNCHANGED next_tx_id
    /\ issued' = Append(issued, next_tx_id)
    /\ txs' = [txs EXCEPT ![next_tx_id].owner = "begin_id"]
    /\ UNCHANGED <<lsmVars, version_store, active_transactions,
                   committed_transactions, pc, op, histVars, bgVars>>

\* TransactionManager::begin_transaction, its first statement:
\* TransactionId::new takes the value of the static COUNTER and adds 1 to it.
BeginTransactionId ==
    /\ next_tx_id \in TxIds
    /\ next_tx_id' = next_tx_id + 1
    /\ issued' = Append(issued, next_tx_id)
    /\ txs' = [txs EXCEPT ![next_tx_id].owner = "begin_id"]
    /\ UNCHANGED <<lsmVars, version_store, active_transactions,
                   committed_transactions, pc, op, histVars, bgVars>>

\* Its second statement: the id goes into the active set, under the write
\* lock of the set, and the lock is released.
BeginTransactionInsert(t) ==
    /\ txs[t].owner = "begin_id"
    /\ active_transactions' = active_transactions \cup {t}
    /\ txs' = [txs EXCEPT ![t].owner = "begin_active"]
    /\ UNCHANGED <<lsmVars, version_store, committed_transactions, next_tx_id,
                   pc, op, histVars, bgVars, issued>>

\* A begin that takes the least commit timestamp of the committed map for
\* the snapshot.
BeginTransactionSnapshotMin(t) ==
    /\ txs[t].owner = "begin_active"
    /\ txs' = [txs EXCEPT ![t] =
                 NewTransaction(
                     IF DOMAIN committed_transactions = {} THEN 0
                     ELSE MinOf({committed_transactions[u] :
                                    u \in DOMAIN committed_transactions}))]
    /\ UNCHANGED <<lsmVars, version_store, tmVars, pc, op, histVars, bgVars,
                   issued>>

\* The rest of begin_transaction, also what
\* MvccLsmStorage::begin_transaction returns: the greatest commit timestamp
\* is read under the read lock of the committed map and the Transaction is
\* built around it.
BeginTransaction(t) ==
    /\ txs[t].owner = "begin_active"
    /\ txs' = [txs EXCEPT ![t] = NewTransaction(GetLatestCommitTimestamp)]
    /\ UNCHANGED <<lsmVars, version_store, tmVars, pc, op, histVars, bgVars,
                   issued>>

\* Transaction::new: a fresh id and the present time for the snapshot; no
\* registry sees the transaction.
TransactionNew ==
    /\ next_tx_id \in TxIds
    /\ next_tx_id' = next_tx_id + 1
    /\ \E now \in NowValues :
          txs' = [txs EXCEPT ![next_tx_id] = NewTransaction(now)]
    /\ issued' = Append(issued, next_tx_id)
    /\ UNCHANGED <<lsmVars, version_store, active_transactions,
                   committed_transactions, pc, op, histVars, bgVars>>

\* <LsmStorage as MvccDatabase>::begin_transaction: Ok(Transaction::new())
LsmBeginTransaction == TransactionNew

\* Write-buffer entries held by all transactions of the run.
RECURSIVE SumWrites(_)
SumWrites(S) ==
    IF S = {} THEN 0
    ELSE LET t == CHOOSE u \in S : TRUE
         IN Cardinality(DOMAIN txs[t].writes) + SumWrites(S \ {t})

Buffered == SumWrites(TxIds)

\* Transaction::put
TransactionPut(t, k, v) ==
    /\ txs[t].owner = "client"
    /\ k \in DOMAIN txs[t].writes \/ Buffered < MaxBuffered
    /\ txs' = [txs EXCEPT ![t].writes = (k :> Some(v)) @@ txs[t].writes]
    /\ UNCHANGED <<lsmVars, version_store, tmVars, pc, op, histVars, bgVars,
                   issued>>

\* Transaction::delete
TransactionDelete(t, k) ==
    /\ txs[t].owner = "client"
    /\ k \in DOMAIN txs[t].writes \/ Buffered < MaxBuffered
    /\ txs' = [txs EXCEPT ![t].writes = (k :> None) @@ txs[t].writes]
    /\ UNCHANGED <<lsmVars, version_store, tmVars, pc, op, histVars, bgVars,
                   issued>>

\* The loop over transaction.writes (a HashMap, walked in any order) that
\* both commit_transaction implementations start with.
WriteOrders(t) ==
    {[i \in 1..Len(order) |-> <<order[i], WriteBytes(txs[t].writes[order[i]])>>] :
        order \in Perms(DOMAIN txs[t].writes)}

\* MvccLsmStorage::commit_transaction is entered: the transaction moves into
\* the call, which puts every entry of the write buffer into the base
\* storage and then calls the registry.
StartCommit(p, t) ==
    /\ Free(p)
    /\ txs[t].owner = "client"
    /\ \E pending \in WriteOrders(t) :
        /\ op' = [op EXCEPT ![p] = [IdleOp EXCEPT !.kind = "commit", !.tx = t,
                                                  !.pending = pending]]
        /\ pc' = [pc EXCEPT ![p] = IF pending = <<>> THEN "tm" ELSE "wal"]
    /\ txs' = [txs EXCEPT ![t].owner = "moved"]
    /\ UNCHANGED <<lsmVars, version_store, tmVars, histVars, bgVars, issued>>

\* <LsmStorage as MvccDatabase>::commit_transaction is entered: the same
\* loop, and after it the state is set and Ok returned; no registry is
\* asked.  With nothing buffered the call returns at once.
LsmStartCommit(p, t) ==
    /\ Free(p)
    /\ txs[t].owner = "client"
    /\ \E pending \in WriteOrders(t) :
        IF pending = <<>>
        THEN /\ txs' = [txs EXCEPT ![t] = Dropped(txs[t], "Committed", "commit_ok")]
             /\ UNCHANGED <<pc, op>>
        ELSE /\ op' = [op EXCEPT ![p] =
                         [IdleOp EXCEPT !.kind = "lsm_commit", !.tx = t,
                                        !.pending = pending]]
             /\ pc' = [pc EXCEPT ![p] = "wal"]
             /\ txs' = [txs EXCEPT ![t].owner = "moved"]
    /\ UNCHANGED <<lsmVars, version_store, tmVars, histVars, bgVars, issued>>

\* <LsmStorage as MvccDatabase>::rollback_transaction: the state is set and
\* Ok returned.
LsmRollbackTransaction(t) ==
    /\ txs[t].owner = "client"
    /\ txs' = [txs EXCEPT ![t] = Dropped(txs[t], "Aborted", "rollback_ok")]
    /\ UNCHANGED <<lsmVars, version_store, tmVars, pc, op, histVars, bgVars,
                   issued>>

\* Transaction::commit(self): the transaction is consumed and Ok(()) is
\* returned.  No store and no registry is part of the call: the write
\* buffer goes with the transaction, the state it had is not changed, and
\* an id that is in the active set stays there.
TransactionCommit(t) ==
    /\ txs[t].owner = "client"
    /\ txs' = [txs EXCEPT ![t] = Dropped(txs[t], txs[t].state, "commit_ok")]
    /\ UNCHANGED <<lsmVars, version_store, tmVars, pc, op, histVars, bgVars,
                   issued>>

\* Transaction::rollback(self): as Transaction::commit(self), the
\* transaction is consumed and Ok(()) is returned.
TransactionRollback(t) ==
    /\ txs[t].owner = "client"
    /\ txs' = [txs EXCEPT ![t] = Dropped(txs[t], txs[t].state, "rollback_ok")]
    /\ UNCHANGED <<lsmVars, version_store, tmVars, pc, op, histVars, bgVars,
                   issued>>

\* TransactionManager::commit_transaction as the last statement of
\* MvccLsmStorage::commit_transaction, up to the reading of the clock: the
\* id is looked up under the read lock of the active set, the state is set,
\* the commit timestamp is taken.
TmCommit(p) ==
    /\ pc[p] = "tm"
    /\ LET t == op[p].tx
       IN IF t \notin active_transactions
          THEN /\ txs' = DropFailed(t)
               /\ pc' = [pc EXCEPT ![p] = "idle"]
               /\ op' = [op EXCEPT ![p] = IdleOp]
          ELSE \E now \in NowValues :
                  /\ txs' = [txs EXCEPT ![t].state = "Committed"]
                  /\ pc' = [pc EXCEPT ![p] = "stamped"]
                  /\ op' = [op EXCEPT ![p].count = now]
    /\ UNCHANGED <<lsmVars, version_store, tmVars, histVars, bgVars, issued>>

\* A registry commit that marks the transaction Committed before it looks
\* for the id in the active set.
ManagerCommitMarksFirst(p, t) ==
    /\ Free(p)
    /\ txs[t].owner = "client"
    /\ txs[t].outcome = "none"
    /\ IF t \notin active_transactions
       THEN /\ txs' = [txs EXCEPT ![t].state = "Committed",
                                  ![t].outcome = "commit_err"]
            /\ op' = [op EXCEPT ![p] = [IdleOp EXCEPT !.kind = "tm_commit",
                                                      !.tx = t, !.result = "Err"]]
            /\ UNCHANGED pc
       ELSE \E now \in NowValues :
               /\ txs' = [txs EXCEPT ![t].state = "Committed", ![t].owner = "moved"]
               /\ op' = [op EXCEPT ![p] = [IdleOp EXCEPT !.kind = "tm_commit",
                                                         !.tx = t, !.count = now]]
               /\ pc' = [pc EXCEPT ![p] = "stamped"]
    /\ UNCHANGED <<lsmVars, version_store, tmVars, histVars, bgVars, issued>>

\* TransactionManager::commit_transaction called on the registry itself,
\* with a transaction the caller keeps (no write of the buffer is applied),
\* up to the reading of the clock.  The caller's &mut borrow keeps the
\* transaction to this call until it returns.
ManagerCommit(p, t) ==
    /\ Free(p)
    /\ txs[t].owner = "client"
    /\ txs[t].outcome = "none"
    /\ IF t \notin active_transactions
       THEN /\ txs' = [txs EXCEPT ![t].outcome = "commit_err"]
            /\ op' = [op EXCEPT ![p] = [IdleOp EXCEPT !.kind = "tm_commit",
                                                      !.tx = t, !.result = "Err"]]
            /\ UNCHANGED pc
       ELSE \E now \in NowValues :
               /\ txs' = [txs EXCEPT ![t].state = "Committed", ![t].owner = "moved"]
               /\ op' = [op EXCEPT ![p] = [IdleOp EXCEPT !.kind = "tm_commit",
                                                         !.tx = t, !.count = now]]
               /\ pc' = [pc EXCEPT ![p] = "stamped"]
    /\ UNCHANGED <<lsmVars, version_store, tmVars, histVars, bgVars, issued>>

\* The next statement of commit_transaction: the timestamp taken goes into
\* the committed map under the map's write lock, and the lock is released.
CommitInsert(p) ==
    /\ pc[p] = "stamped"
    /\ LET t == op[p].tx
       IN /\ committed_transactions' = (t :> op[p].count) @@ committed_transactions
          /\ commit_order' = Append(commit_order, t)
          /\ txs' = [txs EXCEPT ![t].conflict =
                        (DOMAIN txs[t].writes \cap ChangedSince(t)) # {}]
    /\ pc' = [pc EXCEPT ![p] = "inserted"]
    /\ UNCHANGED <<lsmVars, version_store, active_transactions, next_tx_id, op,
                   acked, mem_src, latest, bgVars, issued>>

\* The last statements of commit_transaction: the id is taken out of the
\* active set under the set's write lock, and Ok is returned.  The commit of
\* MvccLsmStorage drops the transaction it was given; the caller of the
\* registry has its transaction back.
CommitRemove(p) ==
    /\ pc[p] = "inserted"
    /\ LET t == op[p].tx
       IN /\ active_transactions' = active_transactions \ {t}
          /\ txs' = [txs EXCEPT ![t] =
                       IF op[p].kind = "commit"
                       THEN [Dropped(txs[t], "Committed", "commit_ok") EXCEPT
                                !.conflict = txs[t].conflict]
                       ELSE [txs[t] EXCEPT !.owner = "client",
                                           !.outcome = "commit_ok"]]
    /\ op' = [op EXCEPT ![p] = IF op[p].kind = "commit" THEN IdleOp
                               ELSE [op[p] EXCEPT !.result = "Ok"]]
    /\ pc' = [pc EXCEPT ![p] = "idle"]
    /\ UNCHANGED <<lsmVars, version_store, committed_transactions, next_tx_id,
                   histVars, bgVars, issued>>

\* TransactionManager::rollback_transaction as MvccLsmStorage::
\* rollback_transaction calls it, up to the release of the read lock: the id
\* is looked up in the active set and the state is set.  The call owns the
\* transaction and drops it however it ends.
RollbackTransaction(t) ==
    /\ txs[t].owner = "client"
    /\ txs' = [txs EXCEPT ![t] =
                 IF t \notin active_transactions
                 THEN Dropped(txs[t], txs[t].state, "rollback_err")
                 ELSE [txs[t] EXCEPT !.state = "Aborted", !.owner = "rollback"]]
    /\ UNCHANGED <<lsmVars, version_store, tmVars, pc, op, histVars, bgVars,
                   issued>>

\* The same statements when rollback_transaction is called on the registry
\* itself, with a transaction the caller keeps.
ManagerRollback(t) ==
    /\ txs[t].owner = "client"
    /\ txs[t].outcome = "none"
    /\ txs' = [txs EXCEPT ![t] =
                 IF t \notin active_transactions
                 THEN [txs[t] EXCEPT !.outcome = "rollback_err"]
                 ELSE [txs[t] EXCEPT !.state = "Aborted", !.owner = "tm_rollback"]]
    /\ UNCHANGED <<lsmVars, version_store, tmVars, pc, op, histVars, bgVars,
                   issued>>

\* A rollback that returns Ok and forgets to take the id out of the active
\* set.
TmRollbackKeepsActive(t) ==
    /\ txs[t].owner \in {"rollback", "tm_rollback"}
    /\ UNCHANGED active_transactions
    /\ txs' = [txs EXCEPT ![t] =
                 IF txs[t].owner = "rollback"
                 THEN Dropped(txs[t], "Aborted", "rollback_ok")
                 ELSE [txs[t] EXCEPT !.owner = "client", !.outcome = "rollback_ok"]]
    /\ UNCHANGED <<lsmVars, version_store, committed_transactions, next_tx_id,
                   pc, op, histVars, bgVars, issued>>

\* The last statements of rollback_transaction: the id is taken out of the
\* active set under the set's write lock, and Ok is returned.
TmRollback(t) ==
    /\ txs[t].owner \in {"rollback", "tm_rollback"}
    /\ active_transactions' = active_transactions \ {t}
    /\ txs' = [txs EXCEPT ![t] =
                 IF txs[t].owner = "rollback"
                 THEN Dropped(txs[t], "Aborted", "rollback_ok")
                 ELSE [txs[t] EXCEPT !.owner = "client", !.outcome = "rollback_ok"]]
    /\ UNCHANGED <<lsmVars, version_store, committed_transactions, next_tx_id,
                   pc, op, histVars, bgVars, issued>>

\* The caller looks at the result of a registry call and goes on.
ManagerResultSeen(t) ==
    /\ txs[t].owner = "client"
    /\ txs[t].outcome # "none"
    /\ txs' = [txs EXCEPT ![t].outcome = "none"]
    /\ UNCHANGED <<lsmVars, version_store, tmVars, pc, op, histVars, bgVars,
                   issued>>

\* ------------------------------------------------------------- compaction
\* CompactionConfig.strategy: the three strategies, with the parameters the
\* managers checked here are built with.
Strategies == {"Leveled", "Tiered", "SizeTiered"}

level_size_multiplier == 10     \* Leveled
level0_sstables_trigger == 2
max_tier_size == 20             \* Tiered
tier_size_multiplier == 2
min_sstable_size == 16          \* SizeTiered
max_sstable_size == 40
bucket_count == 2

\* The inputs of the calls that make runs.
RunTimestamps == 0..MaxClock
RunKeySets == (SUBSET Keys) \ {{}}
RunValue(id) == Bytes(id, 1)

\* The paths callers give their run files.
CallerPath(n) == <<"run", n>>
RunPaths == {CallerPath(n) : n \in 1..MaxRuns}

\* CompactionManager::new: the manager is built around its configuration.
CompactionManagerNew(s) ==
    /\ strategy = "none"
    /\ strategy' = s
    /\ UNCHANGED <<lsmVars, version_store, tmVars, txs, pc, op, histVars,
                   runVars, is_compacting, is_collecting, garbage_collector,
                   reopens, issued, loopVars>>

\* The entry of a run file: bincode's (key, value), two length-prefixed byte
\* strings.  The timestamp of a ValueWithTimestamp is not written.
EntryBytes(k, v) == Cat(VecBytes(KeyBytes(k)), VecBytes(ValueBytes(v)))

\* The bytes create writes for the entries data, a map as a BTreeMap walks
\* it: in the order of the keys.
RECURSIVE EntriesBytes(_, _)
EntriesBytes(data, ks) ==
    IF ks = <<>> THEN <<>>
    ELSE Cat(EntryBytes(Head(ks), data[Head(ks)].value),
             EntriesBytes(data, Tail(ks)))

RunFileBytes(data) == EntriesBytes(data, SortedKeys(DOMAIN data))

\* A file opened with create(true).write(true) and written from its start:
\* the file is not truncated, and what it held behind the new bytes stays.
Overwrite(old, new) ==
    IF ByteLen(new) >= ByteLen(old) THEN new
    ELSE Cat(new, Sub(old, ByteLen(new), ByteLen(old)))

\* The file number the path stands for once it is opened with create(true):
\* that of the file at the path, or that of a new file.
OpenCreate(path) ==
    IF path \in DOMAIN files THEN files[path] ELSE Len(inodes) + 1

\* The bytes of the file at the path once data is written to it.
Written(path, data) ==
    IF path \in DOMAIN files
    THEN Overwrite(inodes[files[path]], RunFileBytes(data))
    ELSE RunFileBytes(data)

\* The SSTable create returns when the file holds bytes: the path, the map
\* of the file (id stands for the file mapped, which outlives its name) and
\* the length metadata gave.
SSTableOf(path, bytes) ==
    [id |-> OpenCreate(path), path |-> path, file_size |-> ByteLen(bytes)]

\* The directory and the files once create has left bytes in the file at
\* the path.
WriteRunFile(path, bytes) ==
    /\ files' = (path :> OpenCreate(path)) @@ files
    /\ inodes' = IF path \in DOMAIN files
                 THEN [inodes EXCEPT ![files[path]] = bytes]
                 ELSE Append(inodes, bytes)
    /\ next_run_id' = next_run_id + 1

\* SSTable::create: the entries are written, without their timestamps, to
\* the file at the path, and the run that maps the file is returned to the
\* caller.  A file of no bytes cannot be mapped: create returns an error
\* and leaves the file.
SSTableCreate(path, ks, v, ts) ==
    /\ LET data == [k \in ks |-> [value |-> v, timestamp |-> ts]]
           bytes == Written(path, data)
       IN /\ WriteRunFile(path, bytes)
          /\ created' = IF bytes = <<>> THEN created
                        ELSE created \cup {SSTableOf(path, bytes)}
    /\ UNCHANGED <<lsmVars, version_store, tmVars, txs, pc, op, histVars,
                   strategy, is_compacting, merges, is_collecting,
                   garbage_collector, reopens, issued, loopVars>>

\* SSTable::from_memtable called with a memtable of the caller's: the same
\* file, of entries that carry no timestamp.
SSTableFromMemtable(path, ks, v) == SSTableCreate(path, ks, v, 0)

AddToLevel(cat, run, level) ==
    IF level \in DOMAIN cat THEN [cat EXCEPT ![level] = Append(@, run)]
    ELSE (level :> <<run>>) @@ cat

\* LsmStorage::add_sstable: the caller hands a run it holds to a level of
\* the catalog.
AddSstable(run, level) ==
    /\ run \in created
    /\ created' = created \ {run}
    /\ sstable_levels' = AddToLevel(sstable_levels, run, level)
    /\ UNCHANGED <<wal, wal_buf, memtable, mem_lock, sstables, version_store,
                   tmVars, txs, pc, op, histVars, files, inodes, strategy,
                   is_compacting, next_run_id, merges, is_collecting,
                   garbage_collector, reopens, issued, loopVars>>

\* SSTable::size: the length of the file when the run was made.
RunSize(run) == run.file_size

RECURSIVE SumSizes(_)
SumSizes(runs) ==
    IF runs = <<>> THEN 0 ELSE RunSize(Head(runs)) + SumSizes(Tail(runs))

\* The runs of the catalog levels ls, lowest level first, each with its level.
RECURSIVE LevelEntries(_, _)
LevelEntries(cat, ls) ==
    IF ls = {} THEN <<>>
    ELSE LET l == CHOOSE x \in ls : \A y \in ls : x <= y
         IN [i \in 1..Len(cat[l]) |-> [run |-> cat[l][i], level |-> l]]
            \o LevelEntries(cat, ls \ {l})

\* LsmStorage::get_all_sstables with SSTable::level: every run the store
\* holds; a flushed run is at level 0, a run of the catalog at the level it
\* was added to.
GetAllSstables ==
    [i \in 1..Len(sstables) |-> [run |-> sstables[i], level |-> 0]]
    \o LevelEntries(sstable_levels, DOMAIN sstable_levels)

\* The runs of the entries e, in the order of e, whose group (group[i] for
\* the i-th entry) is g: the Vec an entry(g).or_insert_with(Vec::new).push
\* loop builds for g.
RECURSIVE GroupRuns(_, _, _)
GroupRuns(e, group, g) ==
    IF e = <<>> THEN <<>>
    ELSE (IF Head(group) = g THEN <<Head(e).run>> ELSE <<>>)
         \o GroupRuns(Tail(e), Tail(group), g)

\* CompactionManager::group_sstables_by_level
GroupSstablesByLevel ==
    LET all == GetAllSstables
        level == [i \in 1..Len(all) |-> all[i].level]
    IN [l \in {level[i] : i \in 1..Len(all)} |-> GroupRuns(all, level, l)]

\* sort_by_key(|sst| sst.size()): a stable sort, smallest run first.
RECURSIVE InsertBySize(_, _)
InsertBySize(sorted, e) ==
    IF sorted = <<>> THEN <<e>>
    ELSE IF RunSize(e.run) < RunSize(Head(sorted).run) THEN <<e>> \o sorted
    ELSE <<Head(sorted)>> \o InsertBySize(Tail(sorted), e)

RECURSIVE SortBySize(_)
SortBySize(s) ==
    IF s = <<>> THEN <<>>
    ELSE InsertBySize(SortBySize(SubSeq(s, 1, Len(s) - 1)), s[Len(s)])

\* The loop of group_sstables_by_tier: the tier each run of the sorted list
\* goes to.  A run that would take the tier over its limit opens the next
\* tier, whose limit is tier_size_multiplier times as large.
RECURSIVE TierWalk(_, _, _, _)
TierWalk(sorted, current_tier, current_tier_size, tier_limit) ==
    IF sorted = <<>> THEN <<>>
    ELSE LET sstable_size == RunSize(Head(sorted).run)
             next == /\ current_tier_size + sstable_size > tier_limit
                     /\ current_tier_size > 0
             tier == IF next THEN current_tier + 1 ELSE current_tier
             size == IF next THEN 0 ELSE current_tier_size
             limit == IF next THEN tier_limit * tier_size_multiplier
                      ELSE tier_limit
         IN <<tier>> \o TierWalk(Tail(sorted), tier, size + sstable_size, limit)

\* CompactionManager::group_sstables_by_tier
GroupSstablesByTier(all) ==
    LET sorted == SortBySize(all)
        tier == TierWalk(sorted, 0, 0, max_tier_size)
    IN [t \in {tier[i] : i \in 1..Len(tier)} |-> GroupRuns(sorted, tier, t)]

\* The bucket group_sstables_by_size puts a run of the given size into.
BucketIndex(size) ==
    LET bucket_range == (max_sstable_size - min_sstable_size) \div bucket_count
        index == (size - min_sstable_size) \div bucket_range
    IN IF size <= min_sstable_size THEN 0
       ELSE IF size >= max_sstable_size THEN bucket_count - 1
       ELSE IF index < bucket_count - 1 THEN index ELSE bucket_count - 1

\* CompactionManager::group_sstables_by_size
GroupSstablesBySize(all) ==
    LET bucket == [i \in 1..Len(all) |-> BucketIndex(RunSize(all[i].run))]
    IN [b \in {bucket[i] : i \in 1..Len(all)} |-> GroupRuns(all, bucket, b)]

\* The entry of a run file read at offset at of a string of bytes, or None
\* when the string ends before the entry does.
ReadEntry(s, at) ==
    LET key == ReadVec(s, at)
    IN IF key = None THEN None
       ELSE LET value == ReadVec(s, key[2].next)
            IN IF value = None THEN None
               ELSE Some([key |-> AsKey(key[2].bytes),
                          value |-> AsValue(value[2].bytes),
                          next |-> value[2].next])

\* The entries read from offset at on, each with the timestamp 0 that
\* SSTable::iter gives what it reads: the file holds none.
RECURSIVE ReadEntries(_, _)
ReadEntries(s, at) ==
    LET entry == ReadEntry(s, at)
    IN IF entry = None THEN <<>>
       ELSE <<[key |-> entry[2].key,
               value |-> [value |-> entry[2].value, timestamp |-> 0]]>>
            \o ReadEntries(s, entry[2].next)

\* The bytes a run maps: the first file_size bytes of its file, as they are
\* now.
Mapped(run) == Sub(inodes[run.id], 0, run.file_size)

\* SSTable::scan_all: every entry the map of the run holds, in the order
\* of the file.
ScanAll(run) == ReadEntries(Mapped(run), 0)

\* The merge loop of merge_sstables over the entries of one run: the entry
\* read first stays unless a later one has a strictly greater timestamp.
RECURSIVE MergeEntries(_, _)
MergeEntries(acc, entries) ==
    IF entries = <<>> THEN acc
    ELSE LET e == Head(entries)
         IN MergeEntries(IF e.key \notin DOMAIN acc
                         THEN (e.key :> e.value) @@ acc
                         ELSE IF e.value.timestamp > acc[e.key].timestamp
                              THEN [acc EXCEPT ![e.key] = e.value]
                              ELSE acc,
                         Tail(entries))

\* The merge loop over the runs, each as it was read.
RECURSIVE MergedData(_, _)
MergedData(acc, read) ==
    IF read = <<>> THEN acc
    ELSE MergedData(MergeEntries(acc, Head(read)), Tail(read))

\* CompactionManager::generate_sstable_path: sst_l{level}_{micros}.bin
GenerateSstablePath(level, now) == <<"sst_l", level, now>>

\* The paths a file, a run handed out or a run of the catalog goes by.
KnownPaths ==
    DOMAIN files
    \cup {r.path : r \in created}
    \cup LET all == GetAllSstables
         IN {all[i].run.path : i \in 1..Len(all)}

\* The clock readings generate_sstable_path is given for an output at the
\* level: a path depends on the reading only through the paths it is equal
\* to, so of the readings no known path of the level holds the least stands
\* for all.
MergeNowValues(level) ==
    LET used == {now \in NowValues :
                    GenerateSstablePath(level, now) \in KnownPaths}
    IN used \cup {now \in NowValues \ used :
                    \A n \in NowValues \ used : now <= n}

\* SSTable::from_data: the run of the merged entries, written to the path
\* as create writes a run.
FromData(path, data) == SSTableOf(path, Written(path, data))

\* CompactionManager::calculate_level_size
CalculateLevelSize(level, multiplier) == multiplier ^ level

\* CompactionManager::get_max_level
GetMaxLevel(by_level) == IF DOMAIN by_level = {} THEN 0 ELSE MaxOf(DOMAIN by_level)

\* The level-0 test of leveled_compaction.
Level0Triggered(by_level) ==
    0 \in DOMAIN by_level /\ Len(by_level[0]) >= level0_sstables_trigger

\* The size test of leveled_compaction for a level from 1 upwards.
LevelTriggered(by_level, level) ==
    /\ level \in DOMAIN by_level
    /\ SumSizes(by_level[level]) > CalculateLevelSize(level, level_size_multiplier)

\* The test of tiered_compaction for a tier, and of size_tiered_compaction
\* for a bucket.
TierTriggered(tiers, t) == SumSizes(tiers[t]) > max_tier_size

BucketTriggered(buckets, b) == Len(buckets[b]) > 1

\* A call of merge_sstables the strategy is going to make.
Merge(inputs, target) == [inputs |-> inputs, target |-> target]

\* The loop of leveled_compaction over the levels from level upwards, on the
\* grouping taken when the job began.
RECURSIVE CompactLevels(_, _)
CompactLevels(by_level, level) ==
    IF level > GetMaxLevel(by_level) THEN <<>>
    ELSE (IF LevelTriggered(by_level, level)
          THEN <<Merge(by_level[level], level + 1)>>
          ELSE <<>>)
         \o CompactLevels(by_level, level + 1)

\* A leveled compaction that merges level 0 whenever it holds a run.
LeveledCompactionEagerLevel0(by_level) ==
    (IF 0 \in DOMAIN by_level THEN <<Merge(by_level[0], 1)>> ELSE <<>>)
    \o CompactLevels(by_level, 1)

\* CompactionManager::leveled_compaction: the merges it makes, in order.
LeveledCompaction(by_level) ==
    (IF Level0Triggered(by_level) THEN <<Merge(by_level[0], 1)>> ELSE <<>>)
    \o CompactLevels(by_level, 1)

\* The merges of a walk over a HashMap of groups: one for every group that
\* meets the trigger, in any order, each into the level target gives it.
MergeOrders(groups, triggered, target) ==
    {[i \in 1..Len(order) |-> Merge(groups[order[i]], target[order[i]])] :
        order \in Perms(triggered)}

\* CompactionManager::tiered_compaction: a tier over max_tier_size is merged
\* into the level of the tier's number.
TieredCompaction(all) ==
    LET tiers == GroupSstablesByTier(all)
    IN MergeOrders(tiers, {t \in DOMAIN tiers : TierTriggered(tiers, t)},
                   [t \in DOMAIN tiers |-> t])

\* CompactionManager::size_tiered_compaction: a bucket of several runs is
\* merged into level 0.
SizeTieredCompaction(all) ==
    LET buckets == GroupSstablesBySize(all)
    IN MergeOrders(buckets, {b \in DOMAIN buckets : BucketTriggered(buckets, b)},
                   [b \in DOMAIN buckets |-> 0])

\* The merges the strategy s makes on the runs the store holds.
StrategyMerges(s) ==
    IF s = "Leveled" THEN {LeveledCompaction(GroupSstablesByLevel)}
    ELSE IF s = "Tiered" THEN TieredCompaction(GetAllSstables)
    ELSE SizeTieredCompaction(GetAllSstables)

\* The tasks that run a compaction job, and where they stand in it.
JobPcs == {"compacting", "merging", "removing"}

\* CompactionManager::trigger_compaction up to the release of the flag lock:
\* the call is refused while the flag is set, and sets it otherwise.
TriggerCompactionCall(p) ==
    /\ strategy # "none"
    /\ pc[p] = "idle"
    /\ IF is_compacting
       THEN /\ op' = [op EXCEPT ![p] = [IdleOp EXCEPT !.kind = "compact",
                                                      !.result = "Err"]]
            /\ UNCHANGED <<pc, is_compacting>>
       ELSE /\ is_compacting' = TRUE
            /\ pc' = [pc EXCEPT ![p] = "compacting"]
            /\ op' = [op EXCEPT ![p] = [IdleOp EXCEPT !.kind = "compact"]]
    /\ UNCHANGED <<lsmVars, version_store, tmVars, txs, histVars, runVars,
                   strategy, is_collecting, garbage_collector, reopens,
                   issued, stopped>>

\* A trigger that sets the flag without looking at it.
TriggerCompactionUnchecked(p) ==
    /\ Free(p)
    /\ strategy # "none"
    /\ is_compacting' = TRUE
    /\ pc' = [pc EXCEPT ![p] = "compacting"]
    /\ op' = [op EXCEPT ![p] = [IdleOp EXCEPT !.kind = "compact"]]
    /\ UNCHANGED <<lsmVars, version_store, tmVars, txs, histVars, runVars,
                   strategy, is_collecting, garbage_collector, reopens,
                   issued, loopVars>>

\* trigger_compaction called by a task of the callers.
TriggerCompaction(p) ==
    /\ Free(p)
    /\ TriggerCompactionCall(p)
    /\ UNCHANGED loop_pc

\* The strategy begins: the runs of the store are read (get_all_sstables,
\* under the read locks of the run list and the catalog) and grouped, which
\* settles the merges this job makes.
GroupSstables(p) ==
    /\ pc[p] = "compacting"
    /\ \E ms \in StrategyMerges(strategy) :
          op' = [op EXCEPT ![p].pending = ms]
    /\ pc' = [pc EXCEPT ![p] = "merging"]
    /\ UNCHANGED <<lsmVars, version_store, tmVars, txs, histVars, bgVars,
                   issued>>

\* merge_sstables up to the creation of the output: the inputs are read
\* (through their maps) and merged, the clock is read for the name of the
\* output, and from_data writes the merged entries to the file of that
\* name.  An output of no bytes cannot be mapped, and the error goes up
\* through the strategy and trigger_compaction, which returns with the flag
\* still set.
MergeSstables(p, now) ==
    /\ pc[p] = "merging"
    /\ op[p].pending # <<>>
    /\ LET m == Head(op[p].pending)
           read == [i \in 1..Len(m.inputs) |-> ScanAll(m.inputs[i])]
           path == GenerateSstablePath(m.target, now)
           merged == MergedData(EmptyMap, read)
           out == FromData(path, merged)
       IN /\ WriteRunFile(path, Written(path, merged))
          /\ IF out.file_size = 0
             THEN /\ op' = [op EXCEPT ![p].result = "Err", ![p].count = 0,
                                      ![p].pending = <<>>]
                  /\ pc' = [pc EXCEPT ![p] = "idle"]
             ELSE /\ op' = [op EXCEPT ![p].read = read, ![p].out = out,
                                      ![p].rest = m.inputs]
                  /\ pc' = [pc EXCEPT ![p] = "removing"]
    /\ UNCHANGED <<lsmVars, version_store, tmVars, txs, histVars, created,
                   strategy, is_compacting, merges, is_collecting,
                   garbage_collector, reopens, issued, loopVars>>

\* tokio::fs::remove_file on the next input of the merge.  When the file is
\* gone the call fails, and the `?`s hand the error up through
\* merge_sstables, the strategy and trigger_compaction, which returns with
\* the flag still set.
RemoveFile(p) ==
    /\ pc[p] = "removing"
    /\ op[p].rest # <<>>
    /\ IF Head(op[p].rest).path \in DOMAIN files
       THEN /\ files' = [f \in DOMAIN files \ {Head(op[p].rest).path} |-> files[f]]
            /\ op' = [op EXCEPT ![p].rest = Tail(@)]
            /\ UNCHANGED pc
       ELSE /\ op' = [op EXCEPT ![p].result = "Err", ![p].count = 0,
                                ![p].pending = <<>>, ![p].rest = <<>>,
                                ![p].read = <<>>, ![p].out = None]
            /\ pc' = [pc EXCEPT ![p] = "idle"]
            /\ UNCHANGED files
    /\ UNCHANGED <<lsmVars, version_store, tmVars, txs, histVars, inodes,
                   created, strategy, is_compacting, next_run_id, merges,
                   is_collecting, garbage_collector, reopens, issued, loopVars>>

\* A run with the entries a merge read from it or wrote to it.
WithData(run, data) ==
    [id |-> run.id, path |-> run.path, file_size |-> run.file_size, data |-> data]

\* The record of a merge: the inputs with what was read from them, the
\* output with what was merged into it, and the level it went to.
Merged(inputs, read, out, target) ==
    [inputs |-> [i \in 1..Len(inputs) |->
                    WithData(inputs[i], MergeEntries(EmptyMap, read[i]))],
     output |-> WithData(out, MergedData(EmptyMap, read)),
     target |-> target]

\* The end of merge_sstables: add_sstable puts the output on its level of
\* the catalog, and the strategy counts the inputs as merged.
AddMerged(p) ==
    /\ pc[p] = "removing"
    /\ op[p].rest = <<>>
    /\ LET m == Head(op[p].pending)
       IN /\ sstable_levels' = AddToLevel(sstable_levels, op[p].out, m.target)
          /\ merges' = Append(merges, Merged(m.inputs, op[p].read, op[p].out,
                                              m.target))
          /\ op' = [op EXCEPT ![p].pending = Tail(@),
                              ![p].count = @ + Len(m.inputs),
                              ![p].read = <<>>, ![p].out = None]
    /\ pc' = [pc EXCEPT ![p] = "merging"]
    /\ UNCHANGED <<wal, wal_buf, memtable, mem_lock, sstables, version_store,
                   tmVars, txs, histVars, files, inodes, created, strategy,
                   is_compacting, next_run_id, is_collecting,
                   garbage_collector, reopens, issued, loopVars>>

\* The end of trigger_compaction after a strategy that returned Ok: the
\* flag is cleared under its lock and the statistics are returned.
CompactionReturn(p) ==
    /\ pc[p] = "merging"
    /\ op[p].pending = <<>>
    /\ is_compacting' = FALSE
    /\ op' = [op EXCEPT ![p].result = "Ok"]
    /\ pc' = [pc EXCEPT ![p] = "idle"]
    /\ UNCHANGED <<lsmVars, version_store, tmVars, txs, histVars, runVars,
                   strategy, is_collecting, garbage_collector, reopens,
                   issued, loopVars>>

\* ------------------------------------------------------------- version store and GC
version_retention_secs == 0     \* GcConfig.version_retention_secs of the runs checked
min_versions_to_keep == 1       \* GcConfig.min_versions_to_keep of the runs checked

\* VersionedRecord::new
VersionedRecordNew(v, t, now) ==
    [value |-> v, created_tx |-> t, expired_tx |-> 0, created_ts |-> now,
     expired_ts |-> 0]

\* VersionedRecord::is_visible
IsVisible(rec, t, snapshot_ts) ==
    /\ rec.created_ts <= snapshot_ts
    /\ (rec.expired_tx = 0 \/ rec.expired_ts > snapshot_ts)
    /\ rec.created_tx # t

\* VersionedRecord::mark_expired
MarkExpired(rec, t, now) == [rec EXCEPT !.expired_tx = t, !.expired_ts = now]

Chain(vs, k) == IF k \in DOMAIN vs THEN vs[k] ELSE <<>>

RECURSIVE SumChains(_, _)
SumChains(vs, ks) ==
    IF ks = {} THEN 0
    ELSE LET k == CHOOSE x \in ks : TRUE
         IN Len(vs[k]) + SumChains(vs, ks \ {k})

\* MvccStorage::get_version called at time now: the chain of the key is
\* walked newest first and the first record that is_visible passes for the
\* transaction is returned.  When no record passes, or the key has no
\* chain, the base storage is asked: what LsmStorage::get finds comes back
\* as a record made now by transaction 0, and None when it finds nothing.
GetVersion(k, t, now) ==
    LET chain == Chain(version_store, k)
        vis == {i \in 1..Len(chain) :
                   IsVisible(chain[i], t, txs[t].snapshot_ts)}
    IN IF vis # {} THEN Ok(Some(chain[MaxOf(vis)]))
       ELSE IF Get(k) = NoReturn THEN NoReturn
       ELSE IF LsmGet(k) = None THEN Ok(None)
       ELSE Ok(Some(VersionedRecordNew(LsmGet(k)[2], 0, now)))

\* MvccStorage::put_version
PutVersion(t, k) ==
    /\ txs[t].owner = "client"
    /\ SumChains(version_store, DOMAIN version_store) < MaxVersions
    /\ \E now \in NowValues :
          version_store' =
              (k :> Append(Chain(version_store, k),
                           VersionedRecordNew(TxValue(t), t, now)))
              @@ version_store
    /\ UNCHANGED <<lsmVars, tmVars, txs, pc, op, histVars, bgVars, issued>>

\* MvccStorage::mark_version_expired: the newest version of the chain is
\* marked, whether or not it was marked before; a key without versions is
\* left alone.
MarkVersionExpired(t, k) ==
    /\ txs[t].owner = "client"
    /\ \E now \in NowValues :
          version_store' =
              IF Chain(version_store, k) = <<>> THEN version_store
              ELSE [version_store EXCEPT ![k][Len(version_store[k])] =
                       MarkExpired(@, t, now)]
    /\ UNCHANGED <<lsmVars, tmVars, txs, pc, op, histVars, bgVars, issued>>

\* The active transactions whose Transaction a begin has built.
Snapshots == {txs[t].snapshot_ts : t \in {u \in active_transactions :
                                             txs[u].state # "Unborn"}}

\* MvccStorage::get_oldest_snapshot_timestamp: the smallest snapshot
\* timestamp of the active transactions; with none active no snapshot holds
\* a version back and the present time is returned.
GetOldestSnapshotTimestamp(now) ==
    IF Snapshots = {} THEN now ELSE MinOf(Snapshots)

\* GarbageCollector::calculate_retention_threshold
CalculateRetentionThreshold(now) ==
    LET retention_micros == version_retention_secs * 1000000
    IN IF now > retention_micros THEN now - retention_micros ELSE 0

\* The test find_obsolete_versions applies to a version.
Collectable(rec, oldest_snapshot_ts, retention_threshold) ==
    /\ rec.created_ts < retention_threshold
    /\ rec.created_ts < oldest_snapshot_ts

\* GarbageCollector::find_obsolete_versions: for every key whose chain is
\* longer than min_versions_to_keep, the index of the first version that
\* passes the test; one index for a key.
FindObsoleteVersions(vs, oldest_snapshot_ts, retention_threshold) ==
    LET hit(k) == {i \in 1..Len(vs[k]) :
                      Collectable(vs[k][i], oldest_snapshot_ts, retention_threshold)}
        ks == {k \in DOMAIN vs : Len(vs[k]) > min_versions_to_keep /\ hit(k) # {}}
    IN [k \in ks |-> MinOf(hit(k))]

\* GarbageCollector::remove_version
RemoveVersion(vs, k, index) ==
    IF k \in DOMAIN vs /\ index <= Len(vs[k])
    THEN [vs EXCEPT ![k] = SubSeq(@, 1, index - 1) \o SubSeq(@, index + 1, Len(@))]
    ELSE vs

\* The tasks that run a collection, and where they stand in it.
GcPcs == {"collecting", "finding", "sweeping"}

\* GarbageCollector::run_garbage_collection up to the release of the flag
\* lock: the call is refused while the flag is set, and sets it otherwise.
GcStartCall(p) ==
    /\ pc[p] = "idle"
    /\ IF is_collecting
       THEN /\ op' = [op EXCEPT ![p] = [IdleOp EXCEPT !.kind = "gc",
                                                      !.result = "Err"]]
            /\ UNCHANGED <<pc, is_collecting>>
       ELSE /\ is_collecting' = TRUE
            /\ pc' = [pc EXCEPT ![p] = "collecting"]
            /\ op' = [op EXCEPT ![p] = [IdleOp EXCEPT !.kind = "gc"]]
    /\ UNCHANGED <<lsmVars, version_store, tmVars, txs, histVars, runVars,
                   strategy, is_compacting, garbage_collector, reopens,
                   issued, stopped>>

\* run_garbage_collection without the test of the flag: every call starts a
\* run.
GcStartUnchecked(p) ==
    /\ Free(p)
    /\ is_collecting' = TRUE
    /\ pc' = [pc EXCEPT ![p] = "collecting"]
    /\ op' = [op EXCEPT ![p] = [IdleOp EXCEPT !.kind = "gc"]]
    /\ UNCHANGED <<lsmVars, version_store, tmVars, txs, histVars, runVars,
                   strategy, is_compacting, garbage_collector, reopens,
                   issued, loopVars>>

\* run_garbage_collection called by a task of the callers.
GcStart(p) ==
    /\ Free(p)
    /\ GcStartCall(p)
    /\ UNCHANGED loop_pc

\* MvccLsmStorage::with_garbage_collection: the store builds an MvccStorage
\* of its own, with an empty version store and a registry of its own, and a
\* collector on it.  Nothing but this collector reaches that MvccStorage.
WithGarbageCollection ==
    /\ garbage_collector = "none"
    /\ garbage_collector' = "idle"
    /\ UNCHANGED <<lsmVars, version_store, tmVars, txs, pc, op, histVars,
                   runVars, strategy, is_compacting, is_collecting, reopens,
                   issued, loopVars>>

\* MvccLsmStorage::run_garbage_collection up to the release of the flag
\* lock: without a collector the call returns an error; with one it is the
\* collector's run_garbage_collection, refused while its flag is set.
RunGarbageCollection(p) ==
    /\ Free(p)
    /\ IF garbage_collector # "idle"
       THEN /\ op' = [op EXCEPT ![p] = [IdleOp EXCEPT !.kind = "store_gc",
                                                      !.result = "Err"]]
            /\ UNCHANGED <<pc, garbage_collector>>
       ELSE /\ garbage_collector' = "collecting"
            /\ pc' = [pc EXCEPT ![p] = "collecting"]
            /\ op' = [op EXCEPT ![p] = [IdleOp EXCEPT !.kind = "store_gc"]]
    /\ UNCHANGED <<lsmVars, version_store, tmVars, txs, histVars, runVars,
                   strategy, is_compacting, is_collecting, reopens, issued,
                   loopVars>>

\* The version store the collection of task p works on: the one of the
\* callers' MvccStorage, or the one of the store's own, which holds nothing.
CollectorVersions(p) ==
    IF op[p].kind = "store_gc" THEN EmptyMap ELSE version_store

\* get_oldest_active_snapshot and calculate_retention_threshold: the oldest
\* snapshot is read from the registry, and the clock is read for the
\* threshold.  The collection of the store's own collector compares what it
\* reads with no version, and the readings are not kept.
GcThresholds(p) ==
    /\ pc[p] = "collecting"
    /\ \E now_snapshot \in NowValues, now \in NowValues :
          op' = IF op[p].kind = "store_gc" THEN op
                ELSE [op EXCEPT ![p].oldest =
                                   GetOldestSnapshotTimestamp(now_snapshot),
                                ![p].threshold =
                                   CalculateRetentionThreshold(now)]
    /\ pc' = [pc EXCEPT ![p] = "finding"]
    /\ UNCHANGED <<lsmVars, version_store, tmVars, txs, histVars, bgVars,
                   issued>>

\* find_obsolete_versions under the lock of the version store; the map it
\* returns is walked in any order.
GcFind(p) ==
    /\ pc[p] = "finding"
    /\ LET obsolete == FindObsoleteVersions(CollectorVersions(p), op[p].oldest,
                                            op[p].threshold)
       IN \E order \in Perms(DOMAIN obsolete) :
             op' = [op EXCEPT ![p].pending =
                       [i \in 1..Len(order) |-> <<order[i], obsolete[order[i]]>>]]
    /\ pc' = [pc EXCEPT ![p] = "sweeping"]
    /\ UNCHANGED <<lsmVars, version_store, tmVars, txs, histVars, bgVars,
                   issued>>

\* One turn of the loop over the versions found: remove_version takes the
\* lock of the version store, removes the version at the index when the
\* chain is that long, and returns Ok, which the loop counts.
GcRemove(p) ==
    /\ pc[p] = "sweeping"
    /\ op[p].pending # <<>>
    /\ version_store' = RemoveVersion(version_store, Head(op[p].pending)[1],
                                      Head(op[p].pending)[2])
    /\ op' = [op EXCEPT ![p].pending = Tail(@), ![p].count = @ + 1]
    /\ UNCHANGED <<lsmVars, tmVars, txs, pc, histVars, bgVars, issued>>

\* The end of run_garbage_collection: the flag is cleared under its lock and
\* the statistics are returned.
GcReturn(p) ==
    /\ pc[p] = "sweeping"
    /\ op[p].pending = <<>>
    /\ is_collecting' = IF op[p].kind = "gc" THEN FALSE ELSE is_collecting
    /\ garbage_collector' = IF op[p].kind = "store_gc" THEN "idle"
                            ELSE garbage_collector
    /\ op' = [op EXCEPT ![p] = [IdleOp EXCEPT !.kind = op[p].kind,
                                              !.result = "Ok",
                                              !.count = op[p].count]]
    /\ pc' = [pc EXCEPT ![p] = "idle"]
    /\ UNCHANGED <<lsmVars, version_store, tmVars, txs, histVars, runVars,
                   strategy, is_compacting, reopens, issued, loopVars>>

\* ------------------------------------------------------------- background tasks
\* BackgroundCompactor::start and BackgroundGc::start up to the loop: the
\* interval is built.
BackgroundStart(l) ==
    /\ loop_pc[l] = "new"
    /\ loop_pc' = [loop_pc EXCEPT ![l] = "waiting"]
    /\ UNCHANGED <<lsmVars, version_store, tmVars, txs, pc, op, histVars,
                   runVars, strategy, is_compacting, is_collecting,
                   garbage_collector, reopens, issued, stopped>>

\* interval.tick().await completes.
BackgroundTick(l) ==
    /\ loop_pc[l] = "waiting"
    /\ loop_pc' = [loop_pc EXCEPT ![l] = "ticked"]
    /\ UNCHANGED <<lsmVars, version_store, tmVars, txs, pc, op, histVars,
                   runVars, strategy, is_compacting, is_collecting,
                   garbage_collector, reopens, issued, stopped>>

\* `if *self.stopped.lock().await { break; }`: the flag is read under its
\* lock, and the lock is released before the loop goes on.
BackgroundCheckStopped(l) ==
    /\ loop_pc[l] = "ticked"
    /\ loop_pc' = [loop_pc EXCEPT ![l] =
                     IF stopped[l] THEN "returned" ELSE "checked"]
    /\ UNCHANGED <<lsmVars, version_store, tmVars, txs, pc, op, histVars,
                   runVars, strategy, is_compacting, is_collecting,
                   garbage_collector, reopens, issued, stopped>>

\* BackgroundCompactor::stop and BackgroundGc::stop, called by a task other
\* than the one that runs start: the flag is set under its lock.
BackgroundStop(l) ==
    /\ ~stopped[l]
    /\ stopped' = [stopped EXCEPT ![l] = TRUE]
    /\ UNCHANGED <<lsmVars, version_store, tmVars, txs, pc, op, histVars,
                   runVars, strategy, is_compacting, is_collecting,
                   garbage_collector, reopens, issued, loop_pc>>

\* Where the loop stands once its call has taken the flag lock: in the call
\* when the call goes on, at the next tick when the call was refused (the
\* error is logged).
AfterCall(l) ==
    loop_pc' = [loop_pc EXCEPT ![l] =
                  IF pc'[LoopTask[l]] = "idle" THEN "waiting" ELSE "running"]

\* The compactor loop calls trigger_compaction.
BackgroundTriggerCompaction ==
    /\ loop_pc["compactor"] = "checked"
    /\ TriggerCompactionCall(LoopTask["compactor"])
    /\ AfterCall("compactor")

\* The collector loop calls run_garbage_collection.
BackgroundGcStart ==
    /\ loop_pc["gc"] = "checked"
    /\ GcStartCall(LoopTask["gc"])
    /\ AfterCall("gc")

\* The call of the loop has returned; its result is logged and dropped, and
\* the loop waits for the next tick.
BackgroundReturn(l) ==
    /\ loop_pc[l] = "running"
    /\ pc[LoopTask[l]] = "idle"
    /\ loop_pc' = [loop_pc EXCEPT ![l] = "waiting"]
    /\ op' = [op EXCEPT ![LoopTask[l]] = IdleOp]
    /\ UNCHANGED <<lsmVars, version_store, tmVars, txs, pc, histVars, runVars,
                   strategy, is_compacting, is_collecting, garbage_collector,
                   reopens, issued, stopped>>

\* ------------------------------------------------------------- restart
\* The page size of the file system: a write the stop of the process cuts
\* short may end where a page of the file ends.
PageSize == 4096

\* The bytes on their way to wal.bin when the process stops: those the
\* BufWriter holds, which it writes when it is dropped, and, while a task
\* is in write_entry, those with the record the task writes behind them.
StopStreams ==
    {wal_buf} \cup
    UNION {{Stream(wal_buf, Head(op[p].pending)[1], Head(op[p].pending)[2], now) :
               now \in WalNowValues} :
           p \in {q \in Tasks : pc[q] = "wal"}}

\* The numbers of bytes of the stream s after which the process is stopped:
\* none, all, a few, the first write of the BufWriter as a whole and up to
\* the last page of the file it reaches.
StopCuts(s) ==
    LET first == IF SumBytes(s) < BufWriterCapacity THEN SumBytes(s)
                 ELSE BufWriterCapacity
        page == ((SumBytes(wal) + first) \div PageSize) * PageSize - SumBytes(wal)
    IN {n \in {0, ShortWrite, page, first, SumBytes(s)} :
           0 <= n /\ n <= SumBytes(s)}

\* The process stops when n bytes of the stream s have reached wal.bin, and
\* the store is opened again on the same directory: LsmStorage::new
\* (through MvccLsmStorage::new) builds an empty memtable, an empty run
\* list and an empty catalog, and WriteAheadLog::new opens wal.bin for
\* appending without reading it.  Whatever lived in memory
\* is gone (the running calls, the BufWriter, the background loops, the
\* managers, the registry, the version store and the static id counter start
\* afresh); the files stay as they are.
Reopen(s, n) ==
    /\ reopens < MaxReopen
    /\ s \in StopStreams
    /\ n \in 0..SumBytes(s)
    /\ reopens' = reopens + 1
    /\ wal' = Join(wal, SliceBytes(s, 0, n))
    /\ wal_buf' = <<>>
    /\ memtable' = MemTableNew
    /\ mem_lock' = "free"
    /\ sstables' = <<>>
    /\ sstable_levels' = EmptyMap
    /\ version_store' = EmptyMap
    /\ active_transactions' = {}
    /\ committed_transactions' = EmptyMap
    /\ next_tx_id' = 1
    /\ txs' = [t \in TxIds |-> NoTx]
    /\ pc' = [p \in Tasks |-> "idle"]
    /\ op' = [p \in Tasks |-> IdleOp]
    /\ mem_src' = [k \in Keys |-> 0]
    /\ commit_order' = <<>>
    /\ created' = {}
    /\ strategy' = "none"
    /\ is_compacting' = FALSE
    /\ is_collecting' = FALSE
    /\ garbage_collector' = "none"
    /\ stopped' = [l \in Loops |-> FALSE]
    /\ loop_pc' = [l \in Loops |-> "new"]
    /\ UNCHANGED <<acked, latest, files, inodes, next_run_id, merges, issued>>

\* ------------------------------------------------------------- specification
\* The steps of a put or delete in hand.
WriteSteps ==
    \/ \E p \in Procs, now \in WalNowValues :
          /\ pc[p] = "wal"
          /\ \E room \in WalRooms(p) : WalStep(p, now, room)
    \/ \E p \in Procs : MemStep(p)

\* The steps of a begin in hand.
BeginSteps ==
    \/ \E t \in TxIds : BeginTransactionInsert(t)
    \/ \E t \in TxIds : BeginTransaction(t)

\* The steps of a registry commit in hand.
CommitSteps ==
    \/ \E p \in Procs : CommitInsert(p)
    \/ \E p \in Procs : CommitRemove(p)

\* The steps of a compaction job in hand.
CompactionSteps(p) ==
    \/ GroupSstables(p)
    \/ /\ pc[p] = "merging"
       /\ op[p].pending # <<>>
       /\ \E now \in MergeNowValues(Head(op[p].pending).target) :
             MergeSstables(p, now)
    \/ RemoveFile(p)
    \/ AddMerged(p)
    \/ CompactionReturn(p)

\* The steps of a collection in hand.
GcSteps(p) ==
    \/ GcThresholds(p)
    \/ GcFind(p)
    \/ GcRemove(p)
    \/ GcReturn(p)

\* The store used through put and delete alone.
NextLsm ==
    \/ \E p \in Procs, k \in Keys, v \in PutValues : StartPut(p, k, v)
    \/ \E p \in Procs, k \in Keys : StartDelete(p, k)
    \/ WriteSteps

\* The store used through the transactions its registry began.
NextTx ==
    \/ WriteSteps
    \/ next_tx_id <= MaxTx /\ BeginTransactionId
    \/ BeginSteps
    \/ \E t \in TxIds, k \in Keys : TransactionPut(t, k, TxValue(t))
    \/ \E t \in TxIds, k \in Keys : TransactionDelete(t, k)
    \/ \E p \in Procs, t \in TxIds : StartCommit(p, t)
    \/ \E p \in Procs : TmCommit(p)
    \/ CommitSteps
    \/ \E t \in TxIds : RollbackTransaction(t)
    \/ \E t \in TxIds : TmRollback(t)

\* The store used as its own MvccDatabase: transactions no registry knows
\* are made, filled, committed and rolled back, by the store and by their
\* own commit and rollback.
NextLsmTx ==
    \/ WriteSteps
    \/ next_tx_id <= MaxTx /\ LsmBeginTransaction
    \/ \E t \in TxIds, k \in Keys : TransactionPut(t, k, TxValue(t))
    \/ \E t \in TxIds, k \in Keys : TransactionDelete(t, k)
    \/ \E p \in Procs, t \in TxIds : LsmStartCommit(p, t)
    \/ \E t \in TxIds : LsmRollbackTransaction(t)
    \/ \E t \in TxIds : TransactionCommit(t)
    \/ \E t \in TxIds : TransactionRollback(t)

\* Runs are made, handed to the catalog and compacted level by level.
NextCompaction ==
    \/ CompactionManagerNew("Leveled")
    \/ \E path \in RunPaths, ks \in RunKeySets, ts \in RunTimestamps :
          /\ next_run_id <= MaxRuns
          /\ \/ SSTableCreate(path, ks, RunValue(next_run_id), ts)
             \/ SSTableCreate(path, ks, Empty, ts)
    \/ \E run \in created, level \in {0, 1} : AddSstable(run, level)
    \/ \E p \in Procs : TriggerCompaction(p)
    \/ \E p \in Procs : CompactionSteps(p)

\* Runs of one key or of all keys are handed to the catalog and compacted by
\* a manager of any of the three strategies.
NextStrategies ==
    \/ \E s \in Strategies : CompactionManagerNew(s)
    \/ \E ks \in {{<<1>>}, Keys} :
          /\ next_run_id <= MaxRuns
          /\ SSTableCreate(CallerPath(next_run_id), ks, RunValue(next_run_id), 0)
    \/ \E run \in created, level \in {0, 1} : AddSstable(run, level)
    \/ \E p \in Procs : TriggerCompaction(p)
    \/ \E p \in Procs : CompactionSteps(p)

\* Versions are pushed onto the chains by transactions and collected; the
\* first version of key 1 is expired while it is the only one.
NextGc ==
    \/ next_tx_id <= MaxTx /\ BeginTransactionId
    \/ BeginSteps
    \/ \E p \in Procs, t \in TxIds : StartCommit(p, t)
    \/ \E p \in Procs : TmCommit(p)
    \/ CommitSteps
    \/ \E t \in TxIds, k \in Keys : PutVersion(t, k)
    \/ \E t \in TxIds :
          /\ Len(Chain(version_store, <<1>>)) = 1
          /\ version_store[<<1>>][1].expired_tx = 0
          /\ MarkVersionExpired(t, <<1>>)
    \/ \E p \in Procs : GcStart(p)
    \/ \E p \in Procs : GcSteps(p)

\* The store used through put and delete, stopped and opened again.
NextCrash ==
    \/ NextLsm
    \/ \E s \in StopStreams : \E n \in StopCuts(s) : Reopen(s, n)

\* Transactions the registry never saw are committed and rolled back too,
\* and transactions are ended by their own commit and rollback, which no
\* store and no registry takes part in.
NextMisuse ==
    \/ NextTx
    \/ next_tx_id <= MaxTx /\ TransactionNew
    \/ \E t \in TxIds : TransactionCommit(t)
    \/ \E t \in TxIds : TransactionRollback(t)

\* The registry alone: transactions with empty write buffers are begun,
\* committed by one task and rolled back, through the store and on the
\* registry itself, any number of times.
NextRegistry ==
    \/ next_tx_id <= MaxTx /\ BeginTransactionId
    \/ BeginSteps
    \/ next_tx_id <= MaxTx /\ TransactionNew
    \/ \E t \in TxIds : StartCommit(1, t)
    \/ TmCommit(1)
    \/ \E t \in TxIds : ManagerCommit(1, t)
    \/ CommitSteps
    \/ \E t \in TxIds : RollbackTransaction(t)
    \/ \E t \in TxIds : ManagerRollback(t)
    \/ \E t \in TxIds : TmRollback(t)
    \/ \E t \in TxIds : ManagerResultSeen(t)

\* The registry used by several tasks at once: commits run next to begins
\* and to each other.
NextCommit ==
    \/ next_tx_id <= MaxTx /\ BeginTransactionId
    \/ BeginSteps
    \/ \E p \in Procs, t \in TxIds : ManagerCommit(p, t)
    \/ CommitSteps
    \/ \E t \in TxIds : ManagerRollback(t)
    \/ \E t \in TxIds : TmRollback(t)
    \/ \E t \in TxIds : ManagerResultSeen(t)

\* Transactions are begun, buffer a write of key 1 and are committed on the
\* registry.
NextBegin ==
    \/ next_tx_id <= MaxTx /\ BeginTransactionId
    \/ BeginSteps
    \/ \E t \in TxIds : TransactionPut(t, <<1>>, TxValue(t))
    \/ \E p \in Procs, t \in TxIds : ManagerCommit(p, t)
    \/ CommitSteps

\* Up to MaxBegins transactions are begun, one begin after the other,
\* buffer a write of key 1 and are committed on the registry by one task,
\* whose steps run between those of a begin: a begin reads a committed map
\* of several entries.  The other runs hand out MaxTx ids.
NextSnapshot ==
    \/ /\ \A t \in TxIds : txs[t].owner \notin {"begin_id", "begin_active"}
       /\ BeginTransactionId
    \/ BeginSteps
    \/ \E t \in TxIds : TransactionPut(t, <<1>>, TxValue(t))
    \/ \E t \in TxIds : ManagerCommit(1, t)
    \/ CommitSteps

\* Transactions are begun and buffer a write; one task commits them through
\* the store, and some are rolled back.
NextRollback ==
    \/ next_tx_id <= MaxTx /\ BeginTransactionId
    \/ BeginSteps
    \/ \E t \in TxIds : TransactionPut(t, <<1>>, TxValue(t))
    \/ \E t \in TxIds : StartCommit(1, t)
    \/ WriteSteps
    \/ TmCommit(1)
    \/ CommitSteps
    \/ \E t \in TxIds : RollbackTransaction(t)
    \/ \E t \in TxIds : TmRollback(t)

\* Transactions are made without a registry, each with the time of its
\* making for a snapshot; the first of them pushes versions onto the chain
\* of one key and expires its unexpired newest version, all of them read
\* the key, and the key is put into the base storage.
NextVersions ==
    \/ next_tx_id <= MaxTx /\ TransactionNew
    \/ \E v \in PutValues : StartPut(1, <<1>>, v)
    \/ WriteSteps
    \/ /\ Len(Chain(version_store, <<1>>)) < MaxChain
       /\ PutVersion(1, <<1>>)
    \/ /\ Len(Chain(version_store, <<1>>)) > 0
       /\ version_store[<<1>>][Len(version_store[<<1>>])].expired_tx = 0
       /\ MarkVersionExpired(1, <<1>>)

\* Runs of one key each are written from memtables, handed to levels 0 and 1
\* and compacted.
NextLeveled ==
    \/ CompactionManagerNew("Leveled")
    \/ \E k \in Keys :
          /\ next_run_id <= MaxLevelRuns
          /\ SSTableFromMemtable(CallerPath(next_run_id), {k},
                                 RunValue(next_run_id))
    \/ \E run \in created, level \in {0, 1} : AddSstable(run, level)
    \/ \E p \in Procs : TriggerCompaction(p)
    \/ \E p \in Procs : CompactionSteps(p)

\* Transactions push versions onto the chain of one key while several tasks
\* call the collector.
NextCollect ==
    \/ next_tx_id <= MaxTx /\ BeginTransactionId
    \/ BeginSteps
    \/ \E t \in active_transactions :
          /\ Len(Chain(version_store, <<1>>)) < MaxChain
          /\ PutVersion(t, <<1>>)
    \/ \E p \in Procs : GcStart(p)
    \/ WithGarbageCollection
    \/ \E p \in Procs : RunGarbageCollection(p)
    \/ \E p \in Procs : GcSteps(p)

\* The two background tasks are started, tick and are stopped while runs are
\* handed to the catalog and transactions push versions onto a chain.
NextBackground ==
    \/ CompactionManagerNew("Leveled")
    \/ /\ next_run_id <= MaxRuns
       /\ SSTableFromMemtable(CallerPath(next_run_id), {<<1>>},
                              RunValue(next_run_id))
    \/ \E run \in created : AddSstable(run, 0)
    \/ next_tx_id <= MaxTx /\ BeginTransactionId
    \/ BeginSteps
    \/ \E t \in active_transactions :
          /\ Len(Chain(version_store, <<1>>)) < MaxChain
          /\ PutVersion(t, <<1>>)
    \/ \E l \in Loops : BackgroundStart(l)
    \/ \E l \in Loops : BackgroundTick(l)
    \/ \E l \in Loops : BackgroundCheckStopped(l)
    \/ \E l \in Loops : BackgroundStop(l)
    \/ BackgroundTriggerCompaction
    \/ CompactionSteps(LoopTask["compactor"])
    \/ BackgroundGcStart
    \/ GcSteps(LoopTask["gc"])
    \/ \E l \in Loops : BackgroundReturn(l)

\* Every operation of the store.
Next ==
    \/ NextBackground
    \/ NextCollect
    \/ NextLeveled
    \/ NextVersions
    \/ NextBegin
    \/ NextSnapshot
    \/ NextCommit
    \/ NextLsm
    \/ NextLsmTx
    \/ NextMisuse
    \/ NextRegistry
    \/ NextCompaction
    \/ NextStrategies
    \/ NextGc
    \/ NextCrash

SpecLsm == Init /\ [][NextLsm]_vars

SpecCompaction == Init /\ [][NextCompaction]_vars

SpecStrategies == Init /\ [][NextStrategies]_vars

SpecCrash == Init /\ [][NextCrash]_vars

SpecTx == Init /\ [][NextTx]_vars

SpecLsmTx == Init /\ [][NextLsmTx]_vars

SpecGc == Init /\ [][NextGc]_vars

SpecCommit == Init /\ [][NextCommit]_vars

SpecBegin == Init /\ [][NextBegin]_vars

SpecSnapshot == Init /\ [][NextSnapshot]_vars

SpecRollback == Init /\ [][NextRollback]_vars

SpecVersions == Init /\ [][NextVersions]_vars

SpecCollect == Init /\ [][NextCollect]_vars

SpecBackground == Init /\ [][NextBackground]_vars

SpecLeveled == Init /\ [][NextLeveled]_vars

SpecRegistry == Init /\ [][NextRegistry]_vars

SpecMisuse == Init /\ [][NextMisuse]_vars

Spec == Init /\ [][Next]_vars

\* ------------------------------------------------------------- claims
\* A transaction the client still holds and the registry lists as active.
Running(t) == txs[t].owner = "client" /\ t \in active_transactions

\* The key is live: its newest write is a non-empty value.
Live(k) == latest[k] # None /\ latest[k][2] # Empty

\* The keys of a scan result, and the value a scan result gives for a key.
ScanKeys(r) == {r[i][1] : i \in 1..Len(r)}

\* C1: after put(k, v) has returned success, and until another write of k,
\* a call of get(k) returns Some(v).
C1_GetAfterPut ==
    \A k \in Keys :
        acked[k][1] = "Put" => Get(k) = Ok(Some(acked[k][2]))

\* C2: after delete(k) has returned success, and until another write of k,
\* a call of get(k) returns None.
C2_GetAfterDelete ==
    \A k \in Keys :
        acked[k] = <<"Del">> => Get(k) = Ok(None)

\* C3: scan(p) returns, in ascending key order and once each, exactly the live
\* keys that start with p, each with its newest value.
C3_ScanLiveKeys ==
    \A p \in Prefixes :
        mem_lock = "free" =>
            LET r == LsmScan(p)
            IN /\ \A k \in Keys : k \in ScanKeys(r) <=> (StartsWith(k, p) /\ Live(k))
               /\ \A i \in 1..Len(r) : r[i][2] = latest[r[i][1]][2]
               /\ \A i, j \in 1..Len(r) : i < j => KeyLess(r[i][1], r[j][1])

\* C4: a running transaction reads, for a key that a transaction committed
\* after its begin wrote, what its snapshot held (absent when nothing did),
\* through get_for_transaction and through scan_for_transaction.
C4_SnapshotIsolation ==
    \A t \in TxIds :
        Running(t) =>
            \A k \in ChangedSince(t) \ DOMAIN txs[t].writes :
                /\ GetForTransaction(ValueType, k, t) = Ok(SnapshotValue(t, k))
                /\ mem_lock = "free" =>
                      LET r == LsmScan(<<>>)
                      IN IF SnapshotValue(t, k) = None
                         THEN k \notin ScanKeys(r)
                         ELSE \E i \in 1..Len(r) :
                                 r[i] = <<k, SnapshotValue(t, k)[2]>>

\* C5: a transaction that wrote a key which another transaction, committed
\* after its begin, wrote too does not commit.
C5_FirstCommitterWins ==
    \A t \in TxIds :
        txs[t].outcome = "commit_ok" => ~txs[t].conflict

\* C6: a transaction that began after u committed has a snapshot_ts of at
\* least u's commit timestamp and reads u's write of every key that nothing
\* has written since: the value of a put, absent for a delete.
C6_CommittedWritesVisible ==
    \A u \in TxIds, t \in TxIds, k \in Keys :
        ( /\ txs[u].outcome = "commit_ok"
          /\ k \in DOMAIN txs[u].writes
          /\ mem_src[k] = u
          /\ Running(t)
          /\ k \notin DOMAIN txs[t].writes
          /\ \E i \in 1..txs[t].seen : commit_order[i] = u )
        => /\ txs[t].snapshot_ts >= committed_transactions[u]
           /\ GetForTransaction(ValueType, k, t) = Ok(txs[u].writes[k])

\* C7: no write of a transaction whose commit returned an error is readable.
C7_FailedCommitInvisible ==
    \A t \in TxIds :
        txs[t].outcome = "commit_err" => \A k \in Keys : mem_src[k] # t

\* C8: a put or delete that ended in failure has not changed the memtable,
\* and one that changed the memtable reports success, whatever its flush
\* step did.
C8_FailedPutNotApplied ==
    \A p \in Procs :
        op[p].kind \in {"put", "delete"}
        => /\ op[p].result \in {"Err", "Panic"} => ~op[p].applied
           /\ op[p].applied => op[p].result = "Ok"

\* A step of the rollback of a running transaction: the call is entered, or
\* it returns.
RollbackStep(t) ==
    \/ Running(t) /\ txs'[t].owner = "rollback"
    \/ txs[t].owner = "rollback" /\ txs'[t].owner # "rollback"

\* C9: rolling back a running transaction leaves the memtable, the WAL, the
\* runs and the version store as they were, takes the transaction out of the
\* active set and ends it Aborted; no write of a transaction rolled back is
\* ever in the store.
C9_RollbackAppliesNothing ==
    /\ [][\A t \in TxIds :
            /\ RollbackStep(t)
               => UNCHANGED <<wal, wal_buf, memtable, sstables, sstable_levels,
                              files, inodes, version_store>>
            /\ (txs[t].owner = "rollback" /\ txs'[t].owner # "rollback")
               => /\ txs'[t].owner = "dropped"
                  /\ t \notin active_transactions'
                  /\ txs'[t].state = "Aborted"
                  /\ txs'[t].outcome = "rollback_ok"]_vars
    /\ [](\A t \in TxIds :
            (txs[t].state = "Aborted" /\ txs[t].owner = "dropped")
            => /\ t \notin active_transactions
               /\ \A k \in Keys : mem_src[k] # t
               /\ \A p \in Procs : op[p].tx # t)

\* C9 witness: a transaction was rolled back with a write in its buffer,
\* while another transaction's write is in the memtable.
C9_Witness ==
    \E t \in TxIds :
        /\ txs[t].state = "Aborted"
        /\ txs[t].owner = "dropped"
        /\ DOMAIN txs[t].writes # {}
        /\ DOMAIN memtable.data # {}

\* C10: a running transaction reads its own buffered write of a key: the
\* value of a put, absent for a delete.
C10_ReadYourOwnWrites ==
    \A t \in TxIds :
        Running(t) =>
            \A k \in DOMAIN txs[t].writes :
                GetForTransaction(ValueType, k, t) = Ok(txs[t].writes[k])

\* C11: once the store has been opened again after an abrupt stop, get(k)
\* returns the value of the last put of k that had returned success.
C11_CrashSafety ==
    reopens > 0 =>
        \A k \in Keys :
            acked[k][1] = "Put" => Get(k) = Ok(Some(acked[k][2]))

\* A flush has started: flush_memtable was entered (it is waiting for, or
\* has panicked on, the memtable lock) or a run it wrote is installed.
FlushStarted == mem_lock # "free" \/ sstables # <<>>

\* C12: once a flush has started, a get of any key written so far still
\* returns the key's newest value, from the memtable or from the installed
\* run: the value is never in neither.
C12_FlushAtomicForReaders ==
    FlushStarted =>
        \A k \in Keys :
            latest[k] # None => Get(k) = Ok(latest[k])

\* The entries a scan of the run yields from the files ino, by key.
RunData(ino, run) ==
    MergeEntries(EmptyMap, ReadEntries(Sub(ino[run.id], 0, run.file_size), 0))

\* The file of the run is in the directory dir under the run's path.
FileExists(dir, run) == run.path \in DOMAIN dir /\ dir[run.path] = run.id

\* The entry of input j2 was written later than the entry of input j: it
\* has the greater timestamp, or the same timestamp in a more recent run
\* (the runs of a merge are listed oldest first).
WrittenLater(inputs, j2, j, k) ==
    \/ inputs[j2].data[k].timestamp > inputs[j].data[k].timestamp
    \/ /\ inputs[j2].data[k].timestamp = inputs[j].data[k].timestamp
       /\ j2 > j

\* C13: every key that is live with value v in an input run of a merge is
\* in the output run, mapped to v or to a value written later than v.
C13_CompactionValuePreserving ==
    \A i \in 1..Len(merges) :
        LET m == merges[i]
        IN \A j \in 1..Len(m.inputs) :
              \A k \in DOMAIN m.inputs[j].data :
                  m.inputs[j].data[k].value # Empty
                  => /\ k \in DOMAIN m.output.data
                     /\ \/ m.output.data[k] = m.inputs[j].data[k]
                        \/ \E j2 \in 1..Len(m.inputs) :
                              /\ k \in DOMAIN m.inputs[j2].data
                              /\ m.output.data[k] = m.inputs[j2].data[k]
                              /\ WrittenLater(m.inputs, j2, j, k)

\* The tasks that run a compaction job.
Compacting == {p \in Procs : pc[p] \in JobPcs}

\* C14: at most one compaction job runs at any time, and a trigger made
\* while a job is running is refused and starts nothing.
C14_CompactionSingleFlight ==
    /\ [](Cardinality(Compacting) <= 1)
    /\ [][\A p \in Procs :
            ( /\ Compacting \ {p} # {}
              /\ pc[p] = "idle"
              /\ op'[p] # op[p]
              /\ op'[p].kind = "compact" )
            => /\ op'[p].result = "Err"
               /\ pc'[p] = "idle"
               /\ UNCHANGED <<is_compacting, files, inodes, sstable_levels, next_run_id,
                              merges>>]_vars

\* C14 witness: a trigger was refused while another task runs a job that has
\* a merge to make.
C14_Witness ==
    \E p \in Procs, q \in Procs :
        /\ p # q
        /\ pc[q] \in JobPcs
        /\ op[q].pending # <<>>
        /\ pc[p] = "idle"
        /\ op[p].kind = "compact"
        /\ op[p].result = "Err"

\* The runs of a catalog, whatever their level.
CatalogRuns(cat) == UNION {{cat[l][i] : i \in 1..Len(cat[l])} : l \in DOMAIN cat}

\* The newest entry of k in the runs: none is written later.
IsNewest(runs, j, k) ==
    /\ k \in DOMAIN runs[j].data
    /\ \A j2 \in 1..Len(runs) :
          k \in DOMAIN runs[j2].data => ~WrittenLater(runs, j2, j, k)

\* Task p ends the merge of level 0 into level 1 in this step, with the
\* output installed or with an error; the runs merged have a file each.
Level0MergeEnds(p) ==
    /\ pc[p] = "removing"
    /\ pc'[p] # "removing"
    /\ Head(op[p].pending).target = 1
    /\ LET runs == Head(op[p].pending).inputs
       IN \A i, j \in 1..Len(runs) : i # j => runs[i].path # runs[j].path

\* C18: a leveled compaction that finds at least level0_sstables_trigger
\* runs at level 0 merges them without error and leaves a run at level 1
\* that carries the newest value of every key of those runs (the only run
\* there when level 1 was empty), with the level-0 runs gone from the
\* catalog and their files deleted.
C18_LeveledMergesLevel0 ==
    [][\A p \in Procs :
          Level0MergeEnds(p)
             => LET runs == Head(op[p].pending).inputs
                    l0 == Merged(runs, op[p].read, op[p].out, 1).inputs
                IN /\ pc'[p] = "merging"
                   /\ \A j \in 1..Len(runs) :
                         /\ runs[j] \notin CatalogRuns(sstable_levels')
                         /\ runs[j].path \notin DOMAIN files'
                   /\ 1 \in DOMAIN sstable_levels'
                   /\ \E n \in 1..Len(sstable_levels'[1]) :
                         LET out == sstable_levels'[1][n]
                         IN /\ FileExists(files', out)
                            /\ \A j \in 1..Len(l0) :
                                  \A k \in DOMAIN l0[j].data :
                                      IsNewest(l0, j, k)
                                      => /\ k \in DOMAIN RunData(inodes', out)
                                         /\ RunData(inodes', out)[k] = l0[j].data[k]
                   /\ 1 \notin DOMAIN sstable_levels
                         => Len(sstable_levels'[1]) = 1]_vars

\* A transaction object exists under the id: some begin made it.
Born(t) == txs[t].state # "Unborn"

\* C16: a commit or rollback of a transaction whose id is not in the active
\* set returns an error and leaves the active set, the committed map and
\* the transaction's state as they were.
C16_MisuseRejected ==
    [][\A t \in TxIds :
          ( /\ Born(t)
            /\ t \notin active_transactions
            /\ txs'[t].outcome # txs[t].outcome
            /\ txs'[t].outcome # "none" )
          => /\ txs'[t].outcome \in {"commit_err", "rollback_err"}
             /\ txs'[t].state = txs[t].state
             /\ UNCHANGED <<active_transactions, committed_transactions>>]_vars

\* C16 witness: a second commit of a committed transaction was refused, and
\* so was the commit of a transaction this registry never began.
C16_Witness ==
    /\ \E t \in TxIds :
          /\ txs[t].state = "Committed"
          /\ txs[t].owner = "client"
          /\ txs[t].outcome = "commit_err"
    /\ \E t \in TxIds :
          /\ txs[t].state = "Active"
          /\ t \notin active_transactions
          /\ txs[t].outcome \in {"commit_err", "rollback_err"}

\* C17: the transaction ids handed out are non-zero and strictly
\* increasing in the order they were handed out, hence all different.
C17_TransactionIdsMonotonic ==
    \A i \in 1..Len(issued) :
        /\ issued[i] > 0
        /\ \A j \in 1..Len(issued) : i < j => issued[i] < issued[j]

\* C17 witness: two transactions were begun while the first was running.
C17_Witness ==
    /\ Len(issued) >= 2
    /\ \A i \in 1..Len(issued) : Running(issued[i])

\* C20: a put of (k, v) that comes right after an acknowledged put of the
\* same (k, v) leaves the memtable as it was: same entries, same byte size,
\* and so the same flush decision and the same lock state.
C20_PutIdempotent ==
    [][\A p \in Procs :
          LET k == Head(op[p].pending)[1]
              v == Head(op[p].pending)[2]
          IN ( /\ pc[p] = "mem"
               /\ pc'[p] # "mem"
               /\ op[p].kind = "put"
               /\ mem_lock = "free"
               /\ MemTableGet(memtable, k) = Some(v)
               /\ acked[k] = <<"Put", v>> )
             => /\ memtable'.data = memtable.data
                /\ memtable'.size = memtable.size
                /\ ShouldFlush(memtable') = ShouldFlush(memtable)
                /\ mem_lock' = mem_lock]_vars

\* A task ends its run of the collector in this step.
GcRunEnds(p) == pc[p] \in GcPcs /\ pc'[p] = "idle"

\* A task's run of the collector removes a version in this step.
GcRemoves(p) == pc[p] = "sweeping" /\ op'[p].count = op[p].count + 1

\* The transactions that are active and hold a snapshot.
ActiveReaders == {t \in active_transactions : txs[t].state # "Unborn"}

\* C15: a removal of the collector leaves at least min_versions_to_keep
\* versions in every chain that held that many, and every active transaction
\* sees the same version of every key after it as before it.
C15_GcKeepsVisibleVersions ==
    [][\A p \in Procs :
          GcRemoves(p)
          => \A k \in DOMAIN version_store :
                /\ Len(version_store[k]) >= min_versions_to_keep
                   => Len(version_store'[k]) >= min_versions_to_keep
                /\ \A t \in ActiveReaders, now \in NowValues :
                      GetVersion(k, t, now)' = GetVersion(k, t, now)]_vars

\* The positions of the list of removals that name key k.
Planned(pending, k) == {i \in 1..Len(pending) : pending[i][1] = k}

\* C19: when the chain a run of the collector finds holds more than
\* min_versions_to_keep versions, all created before the retention threshold
\* and before the oldest active snapshot the run has read, the run takes all
\* of them but the newest min_versions_to_keep for removal.
C19_GcCompleteness ==
    [][\A p \in Procs :
          (pc[p] = "finding" /\ pc'[p] = "sweeping")
          => \A k \in DOMAIN version_store :
                LET chain == version_store[k]
                    n == Len(chain)
                IN ( /\ n > min_versions_to_keep
                     /\ \A i \in 1..n :
                           Collectable(chain[i], op[p].oldest, op[p].threshold) )
                   => Cardinality(Planned(op'[p].pending, k))
                         = n - min_versions_to_keep]_vars

\* A task ends its run of the compaction in this step.
CompactionEnds(p) == pc[p] \in JobPcs /\ pc'[p] = "idle"

\* No level, tier or bucket meets the trigger of the manager's strategy.
NothingToCompact ==
    LET by_level == GroupSstablesByLevel
        tiers == GroupSstablesByTier(GetAllSstables)
        buckets == GroupSstablesBySize(GetAllSstables)
    IN IF strategy = "Leveled"
       THEN /\ ~Level0Triggered(by_level)
            /\ \A level \in 1..GetMaxLevel(by_level) :
                  ~LevelTriggered(by_level, level)
       ELSE IF strategy = "Tiered"
       THEN \A t \in DOMAIN tiers : ~TierTriggered(tiers, t)
       ELSE \A b \in DOMAIN buckets : ~BucketTriggered(buckets, b)

\* Task p runs a compaction that has found nothing to merge.
FoundNothing(p) ==
    pc[p] = "merging" /\ op[p].pending = <<>> /\ op[p].count = 0

\* C21: a compaction that reads the runs while no level, tier or bucket
\* meets its trigger plans no merge, and a compaction that has found nothing
\* to merge returns Ok with 0 runs merged; neither step creates a file,
\* deletes a file or changes the catalog and the run list.
C21_EmptyCompactionNoOp ==
    [][\A p \in Procs :
          /\ (pc[p] = "compacting" /\ pc'[p] # "compacting" /\ NothingToCompact)
             => /\ FoundNothing(p)'
                /\ UNCHANGED <<files, inodes, sstable_levels, sstables, next_run_id>>
          /\ (FoundNothing(p) /\ pc'[p] # "merging")
             => /\ pc'[p] = "idle"
                /\ op'[p].result = "Ok"
                /\ op'[p].count = 0
                /\ UNCHANGED <<files, inodes, sstable_levels, sstables, next_run_id>>]_vars

\* C21 witness: a compaction has returned Ok with 0 runs merged, and the
\* catalog holds runs none of which meets a trigger.
C21_Witness ==
    /\ \E p \in Procs :
          /\ pc[p] = "idle"
          /\ op[p].kind = "compact"
          /\ op[p].result = "Ok"
          /\ op[p].count = 0
    /\ sstable_levels # EmptyMap
    /\ NothingToCompact

\* C22: an entry a reader finds in the store was put there by a plain write
\* or by a transaction the registry records as committed, never by one that
\* is still in the active set.
C22_NoDirtyReads ==
    \A k \in Keys :
        (MemTableGet(memtable, k) # None /\ mem_src[k] # 0)
        => /\ mem_src[k] \notin active_transactions
           /\ mem_src[k] \in DOMAIN committed_transactions

\* The commit timestamps the committed map holds.
CommitTimestamps ==
    {committed_transactions[u] : u \in DOMAIN committed_transactions}

\* Who holds a Transaction that lives: the client, or a call it was given to.
Holders == {"client", "moved", "rollback", "tm_rollback"}

\* The transaction comes out of the registry's begin in this step.
Begins(t) ==
    /\ txs[t].owner = "begin_active"
    /\ txs'[t].owner # "begin_active"

\* C23: the transaction a begin returns is Active, has an empty write
\* buffer, is in the active set, and has for snapshot_ts the greatest commit
\* timestamp the committed map holds when the begin reads it (0 when the map
\* is empty); as long as the transaction object lives its snapshot_ts stays
\* what it was.
C23_BeginTransaction ==
    [][\A t \in TxIds :
          /\ Begins(t)
             => /\ txs'[t].state = "Active"
                /\ txs'[t].writes = EmptyMap
                /\ t \in active_transactions'
                /\ IF CommitTimestamps = {}
                   THEN txs'[t].snapshot_ts = 0
                   ELSE /\ txs'[t].snapshot_ts \in CommitTimestamps
                        /\ \A c \in CommitTimestamps : c <= txs'[t].snapshot_ts
          /\ (txs[t].owner \in Holders /\ txs'[t].owner \in Holders)
             => txs'[t].snapshot_ts = txs[t].snapshot_ts]_vars

\* C23 witness: a transaction begun after two commits, of which the second
\* to enter the committed map has the smaller timestamp, holds the greater
\* of the two timestamps as its snapshot and has gone on to buffer a write.
C23_Witness ==
    \E t \in TxIds :
        /\ Running(t)
        /\ txs[t].seen = 2
        /\ committed_transactions[commit_order[2]]
              < committed_transactions[commit_order[1]]
        /\ txs[t].snapshot_ts = committed_transactions[commit_order[1]]
        /\ txs[t].writes # EmptyMap

\* C24: every transaction whose commit returned Ok is in the committed map,
\* out of the active set and marked Committed, and its commit timestamp is
\* at least that of every transaction that committed before it.
C24_CommitTimestampsOrdered ==
    /\ \A t \in TxIds :
          txs[t].outcome = "commit_ok"
          => /\ t \in DOMAIN committed_transactions
             /\ t \notin active_transactions
             /\ txs[t].state = "Committed"
    /\ \A i, j \in 1..Len(commit_order) :
          i < j => committed_transactions[commit_order[i]]
                      <= committed_transactions[commit_order[j]]

\* The readers and snapshot timestamps the visibility test is checked on:
\* every transaction id, 0 for a reader without one, and every time.
TestTimes == 0..(1 + MaxClock)
TestTxIds == 0..MaxBegins

\* The cases in which a record is hidden from a reader.
Hidden(rec, t, s) ==
    \/ rec.created_ts > s
    \/ (rec.expired_tx # 0 /\ rec.expired_ts <= s)
    \/ rec.created_tx = t

\* C25: is_visible is true exactly when the record was created at or before
\* the snapshot, is unexpired or expired after the snapshot, and was not
\* created by the reader, for every record of the version store, every
\* reader and every snapshot; and a record that a living transaction with
\* snapshot s gets from get_version for a key, whenever it calls, is a
\* version of the key with created_ts <= s that is unexpired or expired
\* after s.
C25_IsVisible ==
    /\ \A k \in DOMAIN version_store, t \in TestTxIds, s \in TestTimes :
          \A i \in 1..Len(version_store[k]) :
              IsVisible(version_store[k][i], t, s)
                 <=> ~Hidden(version_store[k][i], t, s)
    /\ \A k \in Keys, t \in TxIds, now \in NowValues :
          (txs[t].owner = "client" /\ GetVersion(k, t, now) # NoReturn) =>
             LET chain == Chain(version_store, k)
                 s == txs[t].snapshot_ts
                 got == GetVersion(k, t, now)[2]
             IN got # None =>
                   /\ \E i \in 1..Len(chain) : chain[i] = got[2]
                   /\ got[2].created_ts <= s
                   /\ got[2].expired_tx = 0 \/ got[2].expired_ts > s

\* C26: in every chain the records' created_ts strictly increase in chain
\* order, and at most one record is unexpired.
C26_VersionChainInvariant ==
    \A k \in DOMAIN version_store :
        LET chain == version_store[k]
        IN /\ \A i, j \in 1..Len(chain) :
                 i < j => chain[i].created_ts < chain[j].created_ts
           /\ Cardinality({i \in 1..Len(chain) : chain[i].expired_tx = 0}) <= 1

\* C27: once a commit has returned Ok, the chain of every key of the write
\* buffer holds a record created by the transaction with the value written
\* (the empty tombstone for a delete), and every older record of that chain
\* is expired.
C27_CommitAppliesToVersionStore ==
    \A t \in TxIds :
        txs[t].outcome = "commit_ok" =>
            \A k \in DOMAIN txs[t].writes :
                LET chain == Chain(version_store, k)
                IN \E i \in 1..Len(chain) :
                      /\ chain[i].created_tx = t
                      /\ chain[i].value = WriteBytes(txs[t].writes[k])
                      /\ \A j \in 1..(i - 1) : chain[j].expired_tx # 0

\* C28: for a key that several inputs of a merge hold, the output holds the
\* newest entry: the one no other input's entry was written later than,
\* where of two entries with the same timestamp the one of the more recent
\* run is the later.
C28_MergeKeepsNewest ==
    \A i \in 1..Len(merges) :
        LET m == merges[i]
        IN \A j \in 1..Len(m.inputs) :
              \A k \in DOMAIN m.inputs[j].data :
                  ( /\ IsNewest(m.inputs, j, k)
                    /\ \E j2 \in 1..Len(m.inputs) :
                          j2 # j /\ k \in DOMAIN m.inputs[j2].data )
                  => /\ k \in DOMAIN m.output.data
                     /\ m.output.data[k] = m.inputs[j].data[k]

\* The run the record of a merge lists as an input or as the output.
RunOf(r) == [id |-> r.id, path |-> r.path, file_size |-> r.file_size]

\* The runs that went into some merge.
MergedAway == UNION {{RunOf(merges[i].inputs[j]) : j \in 1..Len(merges[i].inputs)} :
                        i \in 1..Len(merges)}

\* C29: in every state a reader can meet, the catalog lists no run whose
\* file is deleted and no run that went into a finished merge, and it lists
\* the output of every finished merge that has not itself been merged.
C29_CompactionInstallAtomic ==
    /\ \A run \in CatalogRuns(sstable_levels) :
          /\ FileExists(files, run)
          /\ run \notin MergedAway
    /\ \A i \in 1..Len(merges) :
          RunOf(merges[i].output) \notin MergedAway
          => RunOf(merges[i].output) \in CatalogRuns(sstable_levels)

\* The key ranges of two runs overlap: neither run's greatest key is below
\* the other's smallest.
RangesOverlap(ino, r1, r2) ==
    LET keys(r) == DOMAIN RunData(ino, r)
        lo(r) == CHOOSE k \in keys(r) : \A k2 \in keys(r) : ~KeyLess(k2, k)
        hi(r) == CHOOSE k \in keys(r) : \A k2 \in keys(r) : ~KeyLess(k, k2)
    IN ~KeyLess(hi(r1), lo(r2)) /\ ~KeyLess(hi(r2), lo(r1))

\* Any two runs of a level from 1 upwards have disjoint key ranges.
LevelsDisjoint(cat, ino) ==
    \A l \in DOMAIN cat :
        l >= 1 => \A i, j \in 1..Len(cat[l]) :
                     i # j => ~RangesOverlap(ino, cat[l][i], cat[l][j])

\* Task p puts the output of a merge on its level in this step.
Installs(p) == pc[p] = "removing" /\ pc'[p] = "merging"

\* C30: a leveled compaction that puts the output of a merge into a catalog
\* whose levels from 1 upwards hold runs with disjoint key ranges leaves
\* them so.
C30_LevelsNonOverlapping ==
    [][\A p \in Procs :
          (Installs(p) /\ LevelsDisjoint(sstable_levels, inodes))
          => LevelsDisjoint(sstable_levels', inodes')]_vars

\* C31: a compaction job that ends with an error leaves every file and the
\* catalog as they were when it started: it has deleted no input file of the
\* merge that failed, the output file of that merge does not remain, and no
\* earlier merge of the job has gone through.
C31_FailedCompactionLeavesInputs ==
    [][\A p \in Procs :
          (CompactionEnds(p) /\ op'[p].result = "Err")
          => /\ pc[p] = "merging" => (files' = files /\ inodes' = inodes)
             /\ pc[p] = "removing"
                => /\ Len(op[p].rest) = Len(Head(op[p].pending).inputs)
                   /\ op[p].out.path \notin DOMAIN files'
             /\ op[p].count = 0]_vars

\* C32: a transaction whose commit returned an error is out of the active
\* set and Aborted.
C32_FailedCommitRollsBack ==
    \A t \in TxIds :
        txs[t].outcome = "commit_err"
        => /\ t \notin active_transactions
           /\ txs[t].state = "Aborted"

\* The positions whose removal turns the chain into chain2.
RemovedAt(chain, chain2) ==
    {i \in 1..Len(chain) :
        chain2 = SubSeq(chain, 1, i - 1) \o SubSeq(chain, i + 1, Len(chain))}

\* The version at position i is obsolete: it expired, before the oldest
\* active snapshot and before the retention threshold, and it is not the
\* newest version of the chain unless it is a tombstone.
Obsolete(chain, i, oldest_snapshot_ts, retention_threshold) ==
    /\ chain[i].expired_ts > 0
    /\ chain[i].expired_ts < oldest_snapshot_ts
    /\ chain[i].expired_ts < retention_threshold
    /\ (i < Len(chain) \/ chain[i].value = Empty)

\* C33: a version that a run of the collector takes out of a chain was
\* obsolete by the oldest snapshot and the threshold the run has read; a
\* version that never expired stays.
C33_GcRemovesOnlyObsolete ==
    [][\A p \in Procs :
          GcRemoves(p)
          => \A k \in DOMAIN version_store :
                version_store'[k] # version_store[k]
                => \E i \in RemovedAt(version_store[k], version_store'[k]) :
                      Obsolete(version_store[k], i, op[p].oldest,
                               op[p].threshold)]_vars

RECURSIVE SumMemEntries(_, _)
SumMemEntries(data, ks) ==
    IF ks = {} THEN 0
    ELSE LET k == CHOOSE x \in ks : TRUE
         IN Len(k) + data[k].len + SumMemEntries(data, ks \ {k})

\* C34: the memtable's size counter equals the sum of len(key) + len(value)
\* over the entries the map holds.
C34_MemTableSizeExact ==
    memtable.size = SumMemEntries(memtable.data, DOMAIN memtable.data)

\* The tasks that run a collection of the callers' collector ("gc") or of
\* the store's own ("store_gc").
Collecting(kind) == {p \in Procs : pc[p] \in GcPcs /\ op[p].kind = kind}

\* The flag of a collector is set.
FlagSet(kind) ==
    IF kind = "gc" THEN is_collecting ELSE garbage_collector = "collecting"

\* C35: of each collector at most one collection runs at any time; a call
\* made while one is running returns an error and leaves the version store
\* and the collector's flag alone; the flag is clear whenever no collection
\* of the collector runs.
C35_GcSingleFlight ==
    /\ [](\A kind \in {"gc", "store_gc"} : Cardinality(Collecting(kind)) <= 1)
    /\ [](\A kind \in {"gc", "store_gc"} :
            Collecting(kind) = {} => ~FlagSet(kind))
    /\ [][\A p \in Procs, kind \in {"gc", "store_gc"} :
            ( /\ Collecting(kind) \ {p} # {}
              /\ pc[p] = "idle"
              /\ op'[p] # op[p]
              /\ op'[p].kind = kind )
            => /\ op'[p].result = "Err"
               /\ pc'[p] = "idle"
               /\ UNCHANGED <<is_collecting, garbage_collector,
                              version_store>>]_vars

\* C35 witness: a call was refused while another task runs a collection that
\* has found a version to remove.
C35_Witness ==
    \E p \in Procs, q \in Procs :
        /\ p # q
        /\ pc[q] = "sweeping"
        /\ op[q].kind = "gc"
        /\ op[q].pending # <<>>
        /\ is_collecting
        /\ pc[p] = "idle"
        /\ op[p].kind = "gc"
        /\ op[p].result = "Err"
        /\ Len(Chain(version_store, <<1>>)) > 0

\* C36: no put or delete is ever left blocked on, or killed by, a lock that
\* it holds itself: the memtable lock is free between the steps of the
\* store, and no task has stopped inside a call.
C36_PutOverThresholdTerminates ==
    /\ mem_lock = "free"
    /\ \A p \in Procs : pc[p] # "dead"

\* C37: when trigger_compaction returns from a job, with Ok or with Err, the
\* flag is clear again; and a trigger is refused only while some task runs a
\* job.
C37_FlagClearedOnReturn ==
    /\ [][\A p \in Procs : CompactionEnds(p) => ~is_compacting']_vars
    /\ [][\A p \in Procs :
            ( /\ pc[p] = "idle"
              /\ pc'[p] = "idle"
              /\ op'[p] # op[p]
              /\ op'[p].kind = "compact"
              /\ op'[p].result = "Err" )
            => Compacting # {}]_vars

\* The values of the records of key k in a log, oldest first.
RECURSIVE WalEntriesOf(_, _)
WalEntriesOf(w, k) ==
    IF w = <<>> THEN <<>>
    ELSE IF Head(w)[1] = k THEN <<Head(w)[2]>> \o WalEntriesOf(Tail(w), k)
    ELSE WalEntriesOf(Tail(w), k)

\* A write of key k is between its WAL append and its memtable insert.
BetweenWalAndMemtable(k) ==
    \E p \in Procs : pc[p] = "mem" /\ Head(op[p].pending)[1] = k

\* C38: when no write of a key is between its WAL append and its memtable
\* insert, the last WAL record of the key carries the value the memtable
\* holds for it: replaying the WAL gives the memtable's value.
C38_WalOrderIsMemtableOrder ==
    \A k \in Keys :
        ( /\ ~BetweenWalAndMemtable(k)
          /\ mem_lock = "free"
          /\ MemTableGet(memtable, k) # None )
        => LET es == WalEntriesOf(WalRecords(wal), k)
           IN /\ es # <<>>
              /\ MemTableGet(memtable, k) = Some(es[Len(es)])

\* The keys of the write set of the commit task p runs that are still to be
\* applied.
PendingKeys(p) == {op[p].pending[i][1] : i \in 1..Len(op[p].pending)}

\* C39: while a commit still has writes to apply, none of its writes is in
\* the memtable, where a get or a scan would read it: readers see all of a
\* write set or nothing of it.
C39_CommitAtomicForReaders ==
    \A p \in Procs :
        (op[p].kind = "commit" /\ PendingKeys(p) # {})
        => \A k \in Keys \ PendingKeys(p) : mem_src[k] # op[p].tx

\* The start loop of background task l begins a run.
BeginsRun(l) == loop_pc[l] # "running" /\ loop_pc'[l] = "running"

\* C40: once stop has returned, the start loop of the same background task
\* begins no compaction (collection) run any more, and the step it takes
\* after its next tick is its return.
C40_StopEndsBackgroundLoop ==
    /\ [][\A l \in Loops : stopped[l] => ~BeginsRun(l)]_vars
    /\ [][\A l \in Loops :
            (stopped[l] /\ loop_pc[l] = "ticked" /\ loop_pc'[l] # "ticked")
            => loop_pc'[l] = "returned"]_vars


====
